---- MODULE Spec2Model ----
(***************************************************************************)
(* Model of the in-memory dashboard of hanoi-relocation                    *)
(* (src/app/routes/api.py): the session, income and settings stores, the   *)
(* streak calculators, the rule-based daily-focus recommendation and the   *)
(* stats, today and recommendations snapshots derived from the stores.     *)
(*                                                                         *)
(* Calendar days are day numbers: date.isoformat() is an order-preserving  *)
(* injection of days into strings, and the code only tests the resulting   *)
(* strings for equality and set membership, so a 'YYYY-MM-DD' string is    *)
(* represented by the number of the day it denotes, and                    *)
(* "d - timedelta(days=1)" by d - 1.                                       *)
(***************************************************************************)
EXTENDS Integers, Sequences, FiniteSets, TLC

VARIABLES
    today,                \* date.today(), the ambient clock
    vietnamese_sessions,  \* DATA['vietnamese_sessions'], a list of records
    python_sessions,      \* DATA['python_sessions'], a list of records
    freelance_projects,   \* DATA['freelance_projects'], a list of records
    settings,             \* DATA['settings']
    milestones,           \* DATA['milestones'], a list of records
    notes,                \* DATA['notes'], a list of records
    learning_path,        \* DATA['learning_path'], a list of records
    COUNTERS,             \* COUNTERS, the next id per collection
    request,              \* the call being served: its name and arguments
    response              \* what that call returned

vars == <<today, vietnamese_sessions, python_sessions, freelance_projects,
          settings, milestones, notes, learning_path, COUNTERS, request,
          response>>

\* the stores that the language-session operations never touch
others == <<python_sessions, freelance_projects, settings, milestones, notes,
            learning_path>>

----------------------------------------------------------------------------
(* Bounds *)

MaxDay == 6            \* the clock runs over days 0..MaxDay
MaxId == 6             \* ids are issued while the counter is below MaxId
MaxStreak == 1         \* streak lengths offered to determine_daily_focus
PercentMargin == 1     \* percents sampled within this distance of a threshold
MaxTarget == 10        \* weekly targets offered to the goal adjustment
MaxChanges == 2        \* creates and deletes of records in one run

Days == 0..MaxDay
MinutesChoices == {15, 50}

----------------------------------------------------------------------------
(* Seed data, api.py lines 31-35 and 72-78 *)

FirstDay == 3

SeedVietnameseSessions(t) ==
    << [id |-> 1, session_date |-> t - 1, minutes |-> 45],
       [id |-> 2, session_date |-> t - 2, minutes |-> 30],
       [id |-> 3, session_date |-> t - 3, minutes |-> 60] >>

SeedCounters ==
    [vietnamese |-> 4, python |-> 3, freelance |-> 3, milestones |-> 5,
     notes |-> 3]

\* api.py 36-39.  Hours are kept in tenths of an hour: 2 is 20, 1.5 is 15.
SeedPythonSessions(t) ==
    << [id |-> 1, session_date |-> t - 1, hours |-> 20],
       [id |-> 2, session_date |-> t - 3, hours |-> 15] >>

\* api.py 40-43.  Amounts are in RON.
SeedFreelanceProjects(t) ==
    << [id |-> 1, project_date |-> t - 5, amount |-> 1500, hours |-> 8],
       [id |-> 2, project_date |-> t - 15, amount |-> 800, hours |-> 4] >>

\* api.py 15-30.  Day 0 is Thursday 2026-08-27, so the target date
\* 2026-10-31 is day 65; an exchange rate is kept in 1/100000 RON.
SeedSettings ==
    [target_date |-> 65,
     income_target |-> 7500,
     python_weekly_target |-> 8,
     vietnamese_weekly_target |-> 7,
     savings |-> 27500,
     monthly_burn |-> 3000,
     preferred_currency |-> "EUR",
     github_username |-> "",
     exchange_rates |-> [EUR |-> 497000, USD |-> 455000, VND |-> 18]]

\* JSON null, and Python None, in a field that otherwise holds a string
\* (no request of the model supplies the string "null")
Null == "null"

\* api.py 44-49.  2025-02-28 is day -545, 2025-03-15 day -530, 2025-06-01
\* day -452 and 2025-08-01 day -391.
SeedMilestones ==
    << [id |-> 1, title |-> "Complete Python Basics", target_date |-> -545,
        category |-> "python", notes |-> "Finish all beginner modules",
        completed |-> TRUE],
       [id |-> 2, title |-> "First Freelance Client", target_date |-> -530,
        category |-> "freelance", notes |-> "", completed |-> TRUE],
       [id |-> 3, title |-> "Vietnamese A1 Level", target_date |-> -452,
        category |-> "vietnamese", notes |-> "Basic conversation ability",
        completed |-> FALSE],
       [id |-> 4, title |-> "Save 5,000", target_date |-> -391,
        category |-> "financial", notes |-> "", completed |-> FALSE] >>

\* api.py 50-53; created_at is the day of datetime.now()
SeedNotes(t) ==
    << [id |-> 1, title |-> "Hanoi Districts Research",
        category |-> "relocation", content |-> "Tay Ho - expat area",
        created_at |-> t],
       [id |-> 2, title |-> "Vietnamese Learning Resources",
        category |-> "learning", content |-> "Duolingo, VietnamesePod101",
        created_at |-> t] >>

Skill(skill_id, skill_name, phase, completed) ==
    [skill_id |-> skill_id, skill_name |-> skill_name, phase |-> phase,
     completed |-> completed, project_url |-> Null]

\* api.py 54-68
SeedLearningPath ==
    << Skill("python_basics", "Python Basics & Syntax", 1, TRUE),
       Skill("data_structures", "Data Structures (Lists, Dicts, Sets)", 1,
             TRUE),
       Skill("functions_oop", "Functions & OOP", 1, TRUE),
       Skill("file_io", "File I/O & CSV Processing", 1, FALSE),
       Skill("error_handling", "Error Handling & Debugging", 1, FALSE),
       Skill("pandas_basics", "Pandas Basics", 2, FALSE),
       Skill("data_visualization", "Data Visualization (Matplotlib/Plotly)",
             2, FALSE),
       Skill("web_scraping", "Web Scraping (BeautifulSoup/Selenium)", 2,
             FALSE),
       Skill("apis_json", "APIs & JSON", 2, FALSE),
       Skill("excel_automation", "Excel Automation (openpyxl)", 3, FALSE),
       Skill("pdf_generation", "PDF Generation", 3, FALSE),
       Skill("database_basics", "Database Basics (SQLite/PostgreSQL)", 3,
             FALSE),
       Skill("flask_basics", "Flask Web Apps", 3, FALSE) >>

\* the milestones, notes and learning path as seeded
SeedCollections ==
    /\ milestones = SeedMilestones
    /\ notes = SeedNotes(FirstDay)
    /\ learning_path = SeedLearningPath

NoCall == [op |-> "none"]

----------------------------------------------------------------------------
(* Helpers over the store *)

\* set(s['session_date'] for s in sessions)
SessionDates(sessions) ==
    { sessions[i].session_date : i \in 1..Len(sessions) }

StreakInfo(s, r, g, p) ==
    [streak |-> s, at_risk |-> r, grace_active |-> g, practiced_today |-> p]

\* WalkBack with "if" in place of "while": one day is counted at most
WalkBack_IfNotWhile(current_date, session_dates) ==
    IF current_date \in session_dates THEN 1 ELSE 0

\* the while loop "while current_date.isoformat() in session_dates:
\*                     streak += 1; current_date -= timedelta(days=1)"
RECURSIVE WalkBack(_, _)
WalkBack(current_date, session_dates) ==
    IF current_date \in session_dates
    THEN 1 + WalkBack(current_date - 1, session_dates)
    ELSE 0

\* calculate_streak without the look-back to yesterday
calculate_streak_NoLookBack(sessions, t) ==
    IF Len(sessions) = 0 THEN 0
    ELSE WalkBack(t, SessionDates(sessions))

\* calculate_streak(), api.py 109-130 (database.py 597-616 is the same)
calculate_streak(sessions, t) ==
    IF Len(sessions) = 0 THEN 0
    ELSE LET session_dates == SessionDates(sessions)
         IN IF t \notin session_dates
            THEN IF (t - 1) \notin session_dates
                 THEN 0
                 ELSE WalkBack(t - 1, session_dates)
            ELSE WalkBack(t, session_dates)

\* calculate_streak_with_grace that starts the grace walk at today, where
\* there is no session
calculate_streak_with_grace_WalkFromToday(sessions, t) ==
    IF Len(sessions) = 0 THEN StreakInfo(0, FALSE, FALSE, FALSE)
    ELSE LET session_dates == SessionDates(sessions)
         IN IF t \in session_dates
            THEN StreakInfo(WalkBack(t, session_dates), FALSE, FALSE, TRUE)
            ELSE IF (t - 1) \in session_dates
            THEN StreakInfo(WalkBack(t, session_dates), TRUE, TRUE, FALSE)
            ELSE StreakInfo(0, FALSE, FALSE, FALSE)

\* calculate_streak_with_grace that also uses practiced_day_before (which
\* the code computes at line 146 and never reads): a two-day grace
calculate_streak_with_grace_TwoDayGrace(sessions, t) ==
    IF Len(sessions) = 0 THEN StreakInfo(0, FALSE, FALSE, FALSE)
    ELSE LET session_dates == SessionDates(sessions)
         IN IF t \in session_dates
            THEN StreakInfo(WalkBack(t, session_dates), FALSE, FALSE, TRUE)
            ELSE IF (t - 1) \in session_dates
            THEN StreakInfo(WalkBack(t - 1, session_dates),
                            TRUE, TRUE, FALSE)
            ELSE IF (t - 2) \in session_dates
            THEN StreakInfo(WalkBack(t - 2, session_dates),
                            TRUE, TRUE, FALSE)
            ELSE StreakInfo(0, FALSE, FALSE, FALSE)

\* calculate_streak_with_grace that tests practiced_yesterday before
\* practiced_today
calculate_streak_with_grace_YesterdayFirst(sessions, t) ==
    IF Len(sessions) = 0 THEN StreakInfo(0, FALSE, FALSE, FALSE)
    ELSE LET session_dates == SessionDates(sessions)
         IN IF (t - 1) \in session_dates
            THEN StreakInfo(WalkBack(t - 1, session_dates),
                            TRUE, TRUE, FALSE)
            ELSE IF t \in session_dates
            THEN StreakInfo(WalkBack(t, session_dates), FALSE, FALSE, TRUE)
            ELSE StreakInfo(0, FALSE, FALSE, FALSE)

\* calculate_streak_with_grace(), api.py 133-166 (database.py 619-646)
calculate_streak_with_grace(sessions, t) ==
    IF Len(sessions) = 0 THEN StreakInfo(0, FALSE, FALSE, FALSE)
    ELSE LET session_dates == SessionDates(sessions)
             yesterday == t - 1
             practiced_today == t \in session_dates
             practiced_yesterday == yesterday \in session_dates
         IN IF practiced_today
            THEN StreakInfo(WalkBack(t, session_dates), FALSE, FALSE, TRUE)
            ELSE IF practiced_yesterday
            THEN StreakInfo(WalkBack(yesterday, session_dates),
                            TRUE, TRUE, FALSE)
            ELSE StreakInfo(0, FALSE, FALSE, FALSE)

----------------------------------------------------------------------------
(* Operations *)

Init ==
    /\ today = FirstDay
    /\ vietnamese_sessions = SeedVietnameseSessions(FirstDay)
    /\ python_sessions = SeedPythonSessions(FirstDay)
    /\ freelance_projects = SeedFreelanceProjects(FirstDay)
    /\ settings = SeedSettings
    /\ SeedCollections
    /\ COUNTERS = SeedCounters
    /\ request = NoCall
    /\ response = NoCall

\* the calendar moves on to the next day between two requests
AdvanceDay ==
    /\ today < MaxDay
    /\ today' = today + 1
    /\ request' = NoCall
    /\ response' = NoCall
    /\ UNCHANGED <<vietnamese_sessions, COUNTERS>>
    /\ UNCHANGED others

\* handle_vietnamese(), POST: api.py 643-654
handle_vietnamese_POST ==
    \E session_date \in Days, minutes \in MinutesChoices :
        /\ COUNTERS.vietnamese < MaxId
        /\ LET session == [id |-> COUNTERS.vietnamese,
                           session_date |-> session_date,
                           minutes |-> minutes]
           IN /\ COUNTERS' = [COUNTERS EXCEPT !.vietnamese = @ + 1]
              /\ vietnamese_sessions' = <<session>> \o vietnamese_sessions
              /\ request' = [op |-> "POST vietnamese",
                             session_date |-> session_date,
                             minutes |-> minutes]
              /\ response' = [op |-> "POST vietnamese",
                              success |-> TRUE, id |-> session.id]
        /\ UNCHANGED today
        /\ UNCHANGED others

\* handle_vietnamese(), DELETE: api.py 656-659
handle_vietnamese_DELETE ==
    \E session_id \in 1..MaxId :
        /\ vietnamese_sessions' =
               SelectSeq(vietnamese_sessions, LAMBDA s : s.id # session_id)
        /\ request' = [op |-> "DELETE vietnamese", id |-> session_id]
        /\ response' = [op |-> "DELETE vietnamese", success |-> TRUE]
        /\ UNCHANGED <<today, COUNTERS>>
        /\ UNCHANGED others

\* a call of calculate_streak(), as made by get_stats and get_today
CallCalculateStreak ==
    /\ request' = [op |-> "calculate_streak"]
    /\ response' = [op |-> "calculate_streak",
                    ret |-> calculate_streak(vietnamese_sessions, today)]
    /\ UNCHANGED <<today, vietnamese_sessions, COUNTERS>>
    /\ UNCHANGED others

\* a call of calculate_streak_with_grace(), as made by get_recommendations
CallCalculateStreakWithGrace ==
    /\ request' = [op |-> "calculate_streak_with_grace"]
    /\ response' = [op |-> "calculate_streak_with_grace",
                    ret |-> calculate_streak_with_grace(vietnamese_sessions,
                                                        today)]
    /\ UNCHANGED <<today, vietnamese_sessions, COUNTERS>>
    /\ UNCHANGED others

Next ==
    \/ AdvanceDay
    \/ handle_vietnamese_POST
    \/ handle_vietnamese_DELETE
    \/ CallCalculateStreak
    \/ CallCalculateStreakWithGrace

Spec == Init /\ [][Next]_vars

----------------------------------------------------------------------------
(* The recommendation engine *)

\* sum(s['minutes'] for s in sessions if s['session_date'] == d)
RECURSIVE MinutesOn(_, _)
MinutesOn(sessions, d) ==
    IF Len(sessions) = 0 THEN 0
    ELSE (IF Head(sessions).session_date = d
          THEN Head(sessions).minutes ELSE 0)
         + MinutesOn(Tail(sessions), d)

\* Max that returns the smaller argument
Max_Smaller(a, b) == IF a >= b THEN b ELSE a

Max(a, b) == IF a >= b THEN a ELSE b

\* the suggestion pools of determine_daily_focus, api.py 266-287
suggestions ==
    [python |->
        << <<"Work through a Python tutorial or course module">>,
           <<"Practice coding challenges on LeetCode or HackerRank">>,
           <<"Build a small project to apply what you've learned">> >>,
     vietnamese |->
        << <<"Complete a Duolingo lesson">>,
           <<"Listen to a VietnamesePod101 episode">>,
           <<"Practice speaking with a tutor on italki">> >>,
     freelance |->
        << <<"Browse Upwork for new opportunities">>,
           <<"Update your portfolio or profile">>,
           <<"Reach out to past clients for referrals">> >>,
     balanced |->
        << <<"Great job staying on track!">>,
           <<"Consider working on your portfolio">>,
           <<"Take time to review and consolidate learning">> >>]

Focus(a, p, r, s, i) ==
    [area |-> a, priority |-> p, reason |-> r, suggestion |-> s, icon |-> i]

\* Rule1 with the "not" dropped
Rule1_NotDropped(streak_info) ==
    streak_info.at_risk /\ streak_info.practiced_today

\* api.py 290: streak_info['at_risk'] and not streak_info['practiced_today']
Rule1(streak_info) ==
    streak_info.at_risk /\ ~streak_info.practiced_today

\* Rule2 with the threshold of rule 5
Rule2_Threshold80(py_percent, vn_percent) ==
    vn_percent < py_percent /\ vn_percent < 80

\* api.py 303: vn_percent < py_percent and vn_percent < 70
Rule2(py_percent, vn_percent) ==
    vn_percent < py_percent /\ vn_percent < 70

\* api.py 313: py_percent < vn_percent and py_percent < 70
Rule3(py_percent, vn_percent) ==
    py_percent < vn_percent /\ py_percent < 70

\* Rule4 as it would be if "everything on track" were tested first
Rule4_AfterRule5(py_percent, vn_percent, income_percent) ==
    /\ py_percent >= 70 /\ vn_percent >= 70 /\ income_percent < 50
    /\ ~(py_percent >= 80 /\ vn_percent >= 80)

\* api.py 324: py_percent >= 70 and vn_percent >= 70 and income_percent < 50
Rule4(py_percent, vn_percent, income_percent) ==
    py_percent >= 70 /\ vn_percent >= 70 /\ income_percent < 50

\* Rule5 with strict comparisons
Rule5_Strict(py_percent, vn_percent) ==
    py_percent > 80 /\ vn_percent > 80

\* api.py 334: py_percent >= 80 and vn_percent >= 80
Rule5(py_percent, vn_percent) ==
    py_percent >= 80 /\ vn_percent >= 80

\* DefaultPython with a strict comparison: a tie goes to vietnamese
DefaultPython_Strict(py_percent, vn_percent) ==
    py_percent < vn_percent

\* api.py 344: py_percent <= vn_percent
DefaultPython(py_percent, vn_percent) ==
    py_percent <= vn_percent

\* determine_daily_focus(py_percent, vn_percent, income_percent, streak_info),
\* api.py 264-359.  An f-string is the tuple of its literal pieces and the
\* values formatted into it; choice is the index random.choice() picks.
\* The function reads DATA['vietnamese_sessions'] and date.today() itself.
determine_daily_focus(py_percent, vn_percent, income_percent, streak_info, choice, sessions, t) ==
    IF Rule1(streak_info)
    THEN LET mins_today == MinutesOn(sessions, t)
             needed == Max(15, 60 - mins_today)
         IN Focus("vietnamese", "urgent",
                  <<"Your ", streak_info.streak, "-day streak is at risk!">>,
                  <<"Just ", needed, " more minutes to keep it alive">>,
                  "fire")
    ELSE IF Rule2(py_percent, vn_percent)
    THEN Focus("vietnamese", "high",
               <<"You're at ", vn_percent, "% of your Vietnamese target (vs ",
                 py_percent, "% Python)">>,
               suggestions.vietnamese[choice], "flag_vn")
    ELSE IF Rule3(py_percent, vn_percent)
    THEN Focus("python", "high",
               <<"You're at ", py_percent, "% of your Python target (vs ",
                 vn_percent, "% Vietnamese)">>,
               suggestions.python[choice], "snake")
    ELSE IF Rule4(py_percent, vn_percent, income_percent)
    THEN Focus("freelance", "medium",
               <<"Learning is on track! Income is at ", income_percent,
                 "% of target">>,
               suggestions.freelance[choice], "briefcase")
    ELSE IF Rule5(py_percent, vn_percent)
    THEN Focus("balanced", "low",
               <<"You're crushing it this week!">>,
               suggestions.balanced[choice], "target")
    ELSE IF DefaultPython(py_percent, vn_percent)
    THEN Focus("python", "medium",
               <<"Python is at ", py_percent, "% - room for improvement">>,
               suggestions.python[choice], "snake")
    ELSE Focus("vietnamese", "medium",
               <<"Vietnamese is at ", vn_percent,
                 "% - room for improvement">>,
               suggestions.vietnamese[choice], "flag_vn")

\* the thresholds the rules of determine_daily_focus compare against
Thresholds == {50, 70, 80}

\* integer percents 0..100, sampled at both ends and around each threshold
Percents ==
    {0, 100} \cup
    { p \in 0..100 : \E th \in Thresholds :
                        p >= th - PercentMargin /\ p <= th + PercentMargin }

StreakInfos ==
    { StreakInfo(s, r, g, p) : s \in 0..MaxStreak,
                               r \in BOOLEAN, g \in BOOLEAN, p \in BOOLEAN }

\* stores the function can find: the seed, or the seed and a session today
FocusStores ==
    { SeedVietnameseSessions(FirstDay) } \cup
    { <<[id |-> 4, session_date |-> FirstDay, minutes |-> m]>>
          \o SeedVietnameseSessions(FirstDay) : m \in MinutesChoices }

\* a caller is about to apply determine_daily_focus to arbitrary arguments
FocusInit ==
    /\ today = FirstDay
    /\ vietnamese_sessions \in FocusStores
    /\ python_sessions = SeedPythonSessions(FirstDay)
    /\ freelance_projects = SeedFreelanceProjects(FirstDay)
    /\ settings = SeedSettings
    /\ SeedCollections
    /\ COUNTERS = [SeedCounters EXCEPT
                       !.vietnamese = Len(vietnamese_sessions) + 1]
    /\ \E py \in Percents, vn \in Percents, inc \in Percents,
          si \in StreakInfos :
            request = [op |-> "determine_daily_focus",
                       py_percent |-> py, vn_percent |-> vn,
                       income_percent |-> inc, streak_info |-> si]
    /\ response = NoCall

CallDetermineDailyFocus ==
    /\ request.op = "determine_daily_focus"
    /\ \E choice \in 1..Len(suggestions.vietnamese) :
          response' = [op |-> "determine_daily_focus",
                       ret |-> determine_daily_focus(
                                   request.py_percent, request.vn_percent,
                                   request.income_percent, request.streak_info,
                                   choice, vietnamese_sessions, today)]
    /\ UNCHANGED <<today, vietnamese_sessions, COUNTERS, request>>
    /\ UNCHANGED others

FocusNext == CallDetermineDailyFocus

FocusSpec == FocusInit /\ [][FocusNext]_vars

----------------------------------------------------------------------------
(* The calendar.  Day 0 is Thursday 2026-08-27, so day 4 is a Monday and   *)
(* day 5 is 2026-09-01.                                                    *)

\* date.weekday(): Monday is 0 and Sunday is 6
Weekday(d) == (d + 3) % 7

\* get_week_dates(), api.py 96-101
get_week_dates(t) ==
    [week_start |-> t - Weekday(t), week_end |-> (t - Weekday(t)) + 6]

\* the first days of August, September, October and November 2026
MonthStarts == {-26, 5, 35, 66}

\* get_month_start(), api.py 104-106: date.today().replace(day=1)
get_month_start(t) ==
    CHOOSE m \in MonthStarts :
        m <= t /\ \A n \in MonthStarts : n <= t => n <= m

\* the first days of the months that hold a date of this model, with
\* strftime('%b') of the month: February, March, June and August 2025 and
\* August to November 2026
MonthTable ==
    { [first |-> -572, month_short |-> "Feb"],
      [first |-> -544, month_short |-> "Mar"],
      [first |-> -452, month_short |-> "Jun"],
      [first |-> -391, month_short |-> "Aug"],
      [first |-> -26, month_short |-> "Aug"],
      [first |-> 5, month_short |-> "Sep"],
      [first |-> 35, month_short |-> "Oct"],
      [first |-> 66, month_short |-> "Nov"] }

\* the month of day d, for a day of one of the months of MonthTable
MonthOf(d) ==
    CHOOSE m \in MonthTable :
        m.first <= d /\ \A n \in MonthTable : n.first <= d => n.first <= m.first

\* datetime.strptime(d, '%Y-%m-%d').day
DayOfMonth(d) == d - MonthOf(d).first + 1

\* datetime.strptime(d, '%Y-%m-%d').strftime('%b')
MonthShort(d) == MonthOf(d).month_short

\* dict.update(data)
DictUpdate(dict, data) ==
    [key \in DOMAIN dict \cup DOMAIN data |->
        IF key \in DOMAIN data THEN data[key] ELSE dict[key]]

----------------------------------------------------------------------------
(* Rollups *)

\* InWeek with the last day of the week left out
InWeek_EndExcluded(d, week_start, week_end) ==
    week_start <= d /\ d < week_end

\* week_start.isoformat() <= s['session_date'] <= week_end.isoformat()
InWeek(d, week_start, week_end) ==
    week_start <= d /\ d <= week_end

\* p['project_date'] >= month_start.isoformat(), api.py 193, 457 and 529
SinceMonthStart(d, month_start) ==
    d >= month_start

\* sum(s['minutes'] for s in sessions)
RECURSIVE SumMinutes(_)
SumMinutes(sessions) ==
    IF Len(sessions) = 0 THEN 0
    ELSE Head(sessions).minutes + SumMinutes(Tail(sessions))

\* sum(s['minutes'] for s in sessions if week_start <= date <= week_end)
RECURSIVE SumWeekMinutes(_, _)
SumWeekMinutes(sessions, week) ==
    IF Len(sessions) = 0 THEN 0
    ELSE (IF InWeek(Head(sessions).session_date,
                    week.week_start, week.week_end)
          THEN Head(sessions).minutes ELSE 0)
         + SumWeekMinutes(Tail(sessions), week)

\* sum(s['hours'] for s in sessions)
RECURSIVE SumHours(_)
SumHours(sessions) ==
    IF Len(sessions) = 0 THEN 0
    ELSE Head(sessions).hours + SumHours(Tail(sessions))

\* sum(s['hours'] for s in sessions if week_start <= date <= week_end)
RECURSIVE SumWeekHours(_, _)
SumWeekHours(sessions, week) ==
    IF Len(sessions) = 0 THEN 0
    ELSE (IF InWeek(Head(sessions).session_date,
                    week.week_start, week.week_end)
          THEN Head(sessions).hours ELSE 0)
         + SumWeekHours(Tail(sessions), week)

\* sum(s['hours'] for s in sessions if s['session_date'] == d)
RECURSIVE HoursOn(_, _)
HoursOn(sessions, d) ==
    IF Len(sessions) = 0 THEN 0
    ELSE (IF Head(sessions).session_date = d
          THEN Head(sessions).hours ELSE 0)
         + HoursOn(Tail(sessions), d)

\* sum(p['amount'] for p in projects)
RECURSIVE SumAmount(_)
SumAmount(projects) ==
    IF Len(projects) = 0 THEN 0
    ELSE Head(projects).amount + SumAmount(Tail(projects))

\* sum(p['amount'] for p in projects if p['project_date'] >= month_start)
RECURSIVE SumAmountSince(_, _)
SumAmountSince(projects, month_start) ==
    IF Len(projects) = 0 THEN 0
    ELSE (IF SinceMonthStart(Head(projects).project_date, month_start)
          THEN Head(projects).amount ELSE 0)
         + SumAmountSince(Tail(projects), month_start)

----------------------------------------------------------------------------
(* Arithmetic.  The code computes in binary floating point; the operators  *)
(* below compute the same values on the rationals num / den.               *)

Min(a, b) == IF a <= b THEN a ELSE b

\* The whole percents k for which the double (k / 100) * 100 lies just below
\* k: 0.29 * 100 is 28.999999999999996, 0.57 * 100 is 56.99999999999999 and
\* 0.58 * 100 is 57.99999999999999, so that int() gives k - 1.  For every
\* other k in 0..100 the product is k or just above it.
TruncatedPercents == {29, 57, 58}

\* int((num / den) * 100) for num >= 0 and den > 0.  A quotient that is not a
\* whole percent is further from one than the rounding error, so int() is
\* the floor of the exact value; a quotient of exactly k / 100 is the double
\* nearest k / 100 whatever num and den are.  The forms with two divisions,
\* (minutes / 60) / vn_target and hours / py_target, give the same doubles
\* for the targets 7 and 8 of this model.
IntPercent(num, den) ==
    LET k == (100 * num) \div den
    IN  IF k * den = 100 * num /\ k \in TruncatedPercents THEN k - 1 ELSE k

\* min(100, int((num / den) * 100)), for num >= 0 and den > 0
CappedPercent(num, den) ==
    Min(100, IntPercent(num, den))

\* "min(100, int((x / target) * 100)) if target > 0 else 100",
\* api.py 188, 189, 195 and today.py 190, 191, 199
PercentOrFull(num, den, target) ==
    IF target > 0 THEN CappedPercent(num, den) ELSE 100

\* "min(100, int((x / target) * 100)) if target > 0 else 0",
\* api.py 531, 549, 557 and today.py 67, 113, 154
PercentOrZero(num, den, target) ==
    IF target > 0 THEN CappedPercent(num, den) ELSE 0

\* round(num / den, 1) in tenths, for num >= 0 and den > 0: the nearest
\* tenth, and the even one of the two when num / den is half way
RoundTenths(num, den) ==
    LET q == (10 * num) \div den
        r == (10 * num) % den
    IN IF 2 * r < den THEN q
       ELSE IF 2 * r > den THEN q + 1
       ELSE IF q % 2 = 0 THEN q ELSE q + 1

----------------------------------------------------------------------------
(* The recommendations snapshot, api.py 169-261 *)

None == [none |-> TRUE]

\* Grade with a strict comparison at the 'A' boundary
Grade_StrictA(py_percent, vn_percent, income_percent) ==
    LET total == py_percent + vn_percent + income_percent
    IN IF total > 3 * 90 THEN "A"
       ELSE IF total >= 3 * 75 THEN "B"
       ELSE IF total >= 3 * 60 THEN "C"
       ELSE "D"

\* api.py 209-218.  avg_percent = total / 3 is compared with 90, 75 and 60;
\* division by 3 is monotone and exact on multiples of 3, so the comparison
\* is that of total with 270, 225 and 180.
Grade(py_percent, vn_percent, income_percent) ==
    LET total == py_percent + vn_percent + income_percent
    IN IF total >= 3 * 90 THEN "A"
       ELSE IF total >= 3 * 75 THEN "B"
       ELSE IF total >= 3 * 60 THEN "C"
       ELSE "D"

\* int(target * 0.7), api.py 223-224, for integer targets below 90
SeventyPercent(target) == (7 * target) \div 10

\* AdjustmentNeeded with "or" in place of "and"
AdjustmentNeeded_Either(py_percent, vn_percent) ==
    py_percent < 50 \/ vn_percent < 50

\* api.py 222: py_percent < 50 and vn_percent < 50
AdjustmentNeeded(py_percent, vn_percent) ==
    py_percent < 50 /\ vn_percent < 50

\* api.py 220-230
Adjustment(py_percent, vn_percent, py_target, vn_target) ==
    IF AdjustmentNeeded(py_percent, vn_percent)
    THEN LET suggested_py == Max(4, SeventyPercent(py_target))
             suggested_vn == Max(4, SeventyPercent(vn_target))
         IN [needed |-> TRUE,
             message |-> <<"Consider adjusting targets: Python to ",
                           suggested_py, "h/week, Vietnamese to ",
                           suggested_vn, "h/week">>,
             suggested_python |-> suggested_py,
             suggested_vietnamese |-> suggested_vn]
    ELSE None

\* MinutesRemaining without the floor of zero
MinutesRemaining_NoFloor(total_minutes) ==
    600 * 60 - total_minutes

\* hours_remaining = max(0, 600 - vn_total_hours), api.py 202, in minutes
MinutesRemaining(total_minutes) ==
    Max(0, 600 * 60 - total_minutes)

\* SeventhsRemaining with the floor of 1 applied to the days, not the weeks
SeventhsRemaining_FloorOnDays(days) ==
    Max(1, days)

\* weeks_remaining = max(1, (target_date - today).days / 7), api.py 203,
\* in sevenths of a week
SeventhsRemaining(days) ==
    Max(7, days)

\* the 'pace' part of the snapshot, api.py 200-204 and 234-241; hours are
\* in tenths of an hour
Pace(sessions, target_date, t, vn_target) ==
    LET total_minutes == SumMinutes(sessions)
        remaining == MinutesRemaining(total_minutes)
        sevenths == SeventhsRemaining(target_date - t)
        required_weekly == RoundTenths(7 * remaining, 60 * sevenths)
    IN [vietnamese_total_hours |-> RoundTenths(total_minutes, 60),
        vietnamese_remaining_hours |-> RoundTenths(remaining, 60),
        vietnamese_required_weekly |-> required_weekly,
        vietnamese_current_target |-> vn_target,
        on_track |-> required_weekly <= 10 * vn_target,
        weeks_remaining |-> sevenths \div 7]

\* get_recommendations(), api.py 169-261; hours are in tenths of an hour
get_recommendations(vn_sessions, py_sessions, projects, st, t, choice) ==
    LET week == get_week_dates(t)
        month_start == get_month_start(t)
        py_week == SumWeekHours(py_sessions, week)
        vn_week_mins == SumWeekMinutes(vn_sessions, week)
        py_target == st.python_weekly_target
        vn_target == st.vietnamese_weekly_target
        py_percent == PercentOrFull(py_week, 10 * py_target, py_target)
        vn_percent == PercentOrFull(vn_week_mins, 60 * vn_target, vn_target)
        income_month == SumAmountSince(projects, month_start)
        income_target == st.income_target
        income_percent ==
            PercentOrFull(income_month, income_target, income_target)
        streak_info == calculate_streak_with_grace(vn_sessions, t)
    IN [daily_focus |->
            determine_daily_focus(py_percent, vn_percent, income_percent,
                                  streak_info, choice, vn_sessions, t),
        pace |-> Pace(vn_sessions, st.target_date, t, vn_target),
        streak |-> [current |-> streak_info.streak,
                    at_risk |-> streak_info.at_risk,
                    grace_active |-> streak_info.grace_active,
                    practiced_today |-> streak_info.practiced_today],
        weekly_summary |->
            [python_hours |-> py_week,
             python_target |-> py_target,
             python_percent |-> py_percent,
             vietnamese_hours |-> RoundTenths(vn_week_mins, 60),
             vietnamese_target |-> vn_target,
             vietnamese_percent |-> vn_percent,
             income_current |-> income_month,
             income_target |-> income_target,
             income_percent |-> income_percent,
             grade |-> Grade(py_percent, vn_percent, income_percent)],
        adjustment |-> Adjustment(py_percent, vn_percent,
                                  py_target, vn_target)]

----------------------------------------------------------------------------
(* The grade and the goal adjustment applied to arbitrary percents *)

IncomePercents == {0, 50, 100}

SummarySettings ==
    { [SeedSettings EXCEPT !.python_weekly_target = a,
                           !.vietnamese_weekly_target = b] :
          a \in 0..MaxTarget, b \in {0, 7, MaxTarget} }

\* get_recommendations has computed the three percents and is about to
\* grade them and to decide on the goal adjustment (api.py 209-230)
SummaryInit ==
    /\ today = FirstDay
    /\ vietnamese_sessions = SeedVietnameseSessions(FirstDay)
    /\ python_sessions = SeedPythonSessions(FirstDay)
    /\ freelance_projects = SeedFreelanceProjects(FirstDay)
    /\ settings \in SummarySettings
    /\ SeedCollections
    /\ COUNTERS = SeedCounters
    /\ \E py \in 0..100, vn \in Percents, inc \in IncomePercents :
            request = [op |-> "weekly_summary",
                       py_percent |-> py, vn_percent |-> vn,
                       income_percent |-> inc]
    /\ response = NoCall

GradeAndAdjust ==
    /\ request.op = "weekly_summary"
    /\ response' =
           [op |-> "weekly_summary",
            grade |-> Grade(request.py_percent, request.vn_percent,
                            request.income_percent),
            adjustment |-> Adjustment(request.py_percent, request.vn_percent,
                                      settings.python_weekly_target,
                                      settings.vietnamese_weekly_target)]
    /\ UNCHANGED <<today, vietnamese_sessions, COUNTERS, request>>
    /\ UNCHANGED others

SummaryNext == GradeAndAdjust

SummarySpec == SummaryInit /\ [][SummaryNext]_vars

----------------------------------------------------------------------------
(* The stats and today snapshots and the today page.  The learning-path    *)
(* counts of the stats, the random motivation string and the display-only  *)
(* badge, ring and average rate fields are left out of the returned        *)
(* records.                                                                *)

\* [s for s in sessions if s['session_date'] == d]
SessionsOn(sessions, d) ==
    SelectSeq(sessions, LAMBDA s : s.session_date = d)

\* get_stats(), api.py 436-503; hours are in tenths of an hour
get_stats(vn_sessions, py_sessions, projects, st, t) ==
    LET week == get_week_dates(t)
        month_start == get_month_start(t)
        vn_total == SumMinutes(vn_sessions)
        vn_week == SumWeekMinutes(vn_sessions, week)
        py_total == SumHours(py_sessions)
        py_week == SumWeekHours(py_sessions, week)
        fl_total == SumAmount(projects)
        fl_month == SumAmountSince(projects, month_start)
    IN [timeline |-> [daysRemaining |-> Max(0, st.target_date - t),
                      targetDate |-> st.target_date],
        vietnamese |-> [totalMinutes |-> vn_total,
                        totalHours |-> RoundTenths(vn_total, 60),
                        thisWeek |-> RoundTenths(vn_week, 60),
                        weeklyTarget |-> st.vietnamese_weekly_target,
                        streak |-> calculate_streak(vn_sessions, t)],
        python |-> [totalHours |-> py_total,
                    thisWeek |-> py_week,
                    weeklyTarget |-> st.python_weekly_target],
        freelance |-> [incomeTotal |-> fl_total,
                       incomeThisMonth |-> fl_month,
                       incomeTarget |-> st.income_target,
                       totalProjects |-> Len(projects)],
        financial |-> [savings |-> st.savings,
                       monthlyBurn |-> st.monthly_burn,
                       runway |-> IF st.monthly_burn > 0
                                  THEN st.savings \div st.monthly_burn
                                  ELSE 0]]

\* "not m['completed'] and m['target_date'] <= week_end.isoformat()",
\* api.py 534-535 and today.py 216
IsUpcoming(m, t) ==
    ~m.completed /\ m.target_date <= get_week_dates(t).week_end

\* the upcoming milestones of get_today(), api.py 534-535
UpcomingMilestones(ms, t) ==
    SelectSeq(ms, LAMBDA m : IsUpcoming(m, t))

\* get_today(), api.py 506-568; hours are in tenths of an hour
get_today(vn_sessions, py_sessions, projects, ms, st, t) ==
    LET week == get_week_dates(t)
        month_start == get_month_start(t)
        py_today == SessionsOn(py_sessions, t)
        py_week == SumWeekHours(py_sessions, week)
        vn_today == SessionsOn(vn_sessions, t)
        vn_week == SumWeekMinutes(vn_sessions, week)
        income_month == SumAmountSince(projects, month_start)
    IN [daysRemaining |-> Max(0, st.target_date - t),
        python |->
            [todayHours |-> SumHours(py_today),
             dailyTarget |-> RoundTenths(st.python_weekly_target, 7),
             weekHours |-> py_week,
             weeklyTarget |-> st.python_weekly_target,
             weekProgress |->
                 PercentOrZero(py_week, 10 * st.python_weekly_target,
                               st.python_weekly_target),
             todaySessions |-> py_today],
        vietnamese |->
            [todayMinutes |-> SumMinutes(vn_today),
             dailyTarget |-> (st.vietnamese_weekly_target * 60) \div 7,
             weekMinutes |-> vn_week,
             weeklyTarget |-> st.vietnamese_weekly_target * 60,
             weekProgress |->
                 PercentOrZero(vn_week, st.vietnamese_weekly_target * 60,
                               st.vietnamese_weekly_target),
             streak |-> calculate_streak(vn_sessions, t),
             todaySessions |-> vn_today],
        income |->
            [thisMonth |-> income_month,
             target |-> st.income_target,
             gap |-> Max(0, st.income_target - income_month),
             progress |-> PercentOrZero(income_month, st.income_target,
                                        st.income_target)],
        upcomingMilestones |-> UpcomingMilestones(ms, t)]

\* get_python_data(), today.py 45-87
get_python_data(py_sessions, st, t) ==
    LET week == get_week_dates(t)
        today_sessions == SessionsOn(py_sessions, t)
        week_hours == SumWeekHours(py_sessions, week)
        weekly_target == st.python_weekly_target
    IN [today_hours |-> SumHours(today_sessions),
        week_hours |-> week_hours,
        weekly_target |-> weekly_target,
        week_progress |->
            PercentOrZero(week_hours, 10 * weekly_target, weekly_target),
        today_sessions |-> today_sessions]

\* get_vietnamese_data(), today.py 90-138
get_vietnamese_data(vn_sessions, st, t) ==
    LET week == get_week_dates(t)
        today_sessions == SessionsOn(vn_sessions, t)
        week_minutes == SumWeekMinutes(vn_sessions, week)
        weekly_target_hours == st.vietnamese_weekly_target
        weekly_target_minutes == weekly_target_hours * 60
    IN [today_minutes |-> SumMinutes(today_sessions),
        daily_target |-> weekly_target_minutes \div 7,
        week_minutes |-> week_minutes,
        week_hours |-> RoundTenths(week_minutes, 60),
        weekly_target_hours |-> weekly_target_hours,
        week_progress |->
            PercentOrZero(week_minutes, weekly_target_minutes,
                          weekly_target_minutes),
        today_sessions |-> today_sessions,
        streak |-> calculate_streak(vn_sessions, t)]

\* get_income_data(), today.py 141-167
get_income_data(projects, st, t) ==
    LET month_start == get_month_start(t)
        income_this_month == SumAmountSince(projects, month_start)
        income_target == st.income_target
    IN [this_month |-> income_this_month,
        target |-> income_target,
        gap |-> Max(0, income_target - income_this_month),
        progress |->
            PercentOrZero(income_this_month, income_target, income_target)]

\* get_smart_focus(), today.py 170-207
get_smart_focus(vn_sessions, py_sessions, projects, st, t, choice) ==
    LET week == get_week_dates(t)
        month_start == get_month_start(t)
        py_week == SumWeekHours(py_sessions, week)
        vn_week_mins == SumWeekMinutes(vn_sessions, week)
        py_target == st.python_weekly_target
        vn_target == st.vietnamese_weekly_target
        py_percent == PercentOrFull(py_week, 10 * py_target, py_target)
        vn_percent == PercentOrFull(vn_week_mins, 60 * vn_target, vn_target)
        income_month == SumAmountSince(projects, month_start)
        income_target == st.income_target
        income_percent ==
            PercentOrFull(income_month, income_target, income_target)
        streak_info == calculate_streak_with_grace(vn_sessions, t)
    IN determine_daily_focus(py_percent, vn_percent, income_percent,
                             streak_info, choice, vn_sessions, t)

\* DATA['milestones'] after the loop of get_upcoming_milestones(), today.py
\* 219-223: the upcoming milestones are the stored dicts themselves, and
\* each gets the keys 'day' and 'month_short'
StoredAfterUpcoming(ms, t) ==
    [i \in 1..Len(ms) |->
        IF IsUpcoming(ms[i], t)
        THEN DictUpdate(ms[i],
                        [day |-> DayOfMonth(ms[i].target_date),
                         month_short |-> MonthShort(ms[i].target_date)])
        ELSE ms[i]]

\* what get_upcoming_milestones() returns, today.py 210-225
get_upcoming_milestones(ms, t) ==
    UpcomingMilestones(StoredAfterUpcoming(ms, t), t)

\* the context of today_page(), today.py 266-300
today_page(vn_sessions, py_sessions, projects, ms, st, t, choice) ==
    [days_remaining |-> Max(0, st.target_date - t),
     milestones |-> get_upcoming_milestones(ms, t),
     python |-> get_python_data(py_sessions, st, t),
     vietnamese |-> get_vietnamese_data(vn_sessions, st, t),
     income |-> get_income_data(projects, st, t),
     focus |-> get_smart_focus(vn_sessions, py_sessions, projects, st, t,
                               choice)]

----------------------------------------------------------------------------
(* The snapshots computed from stores and settings that earlier requests   *)
(* have left behind                                                        *)

\* session lengths that bring the seed total of 135 minutes just short of,
\* exactly to, and beyond the 600 hours of the pacing target
LongMinutes == {600 * 60 - 139, 600 * 60 - 135, 600 * 60}

HoursChoices == {10, 25}
AmountChoices == {500, 2050, 4000}

\* the language store after one more POST, after the seed was deleted, or
\* untouched
DashVietnameseStores ==
    { SeedVietnameseSessions(FirstDay), << >> } \cup
    { <<[id |-> 4, session_date |-> d, minutes |-> m]>>
          \o SeedVietnameseSessions(FirstDay) :
          d \in Days, m \in MinutesChoices \cup LongMinutes }

DashPythonStores ==
    { SeedPythonSessions(FirstDay), << >> } \cup
    { <<[id |-> 3, session_date |-> d, hours |-> h]>>
          \o SeedPythonSessions(FirstDay) : d \in Days, h \in HoursChoices }

DashFreelanceStores ==
    { SeedFreelanceProjects(FirstDay), << >> } \cup
    { <<[id |-> 3, project_date |-> d, amount |-> a, hours |-> 2]>>
          \o SeedFreelanceProjects(FirstDay) :
          d \in Days, a \in AmountChoices }

\* the settings after PUTs of targets and of the target date: the seed
\* values, targets of zero, and a target date that is near or has passed
DashSettings ==
    { [SeedSettings EXCEPT !.target_date = td,
                           !.income_target = it,
                           !.python_weekly_target = pt,
                           !.vietnamese_weekly_target = vt] :
          td \in {0, FirstDay + 1, 65}, it \in {0, 7500},
          pt \in {0, 8}, vt \in {0, 7} }

DashInit ==
    /\ today \in FirstDay..MaxDay
    /\ \/ /\ vietnamese_sessions \in DashVietnameseStores
          /\ python_sessions = SeedPythonSessions(FirstDay)
          /\ freelance_projects = SeedFreelanceProjects(FirstDay)
          /\ settings \in DashSettings
       \/ /\ vietnamese_sessions = SeedVietnameseSessions(FirstDay)
          /\ python_sessions \in DashPythonStores
          /\ freelance_projects \in DashFreelanceStores
          /\ settings = SeedSettings
    /\ SeedCollections
    /\ COUNTERS =
           [SeedCounters EXCEPT
                !.vietnamese = IF Len(vietnamese_sessions) = 4 THEN 5 ELSE 4,
                !.python = IF Len(python_sessions) = 3 THEN 4 ELSE 3,
                !.freelance = IF Len(freelance_projects) = 3 THEN 4 ELSE 3]
    /\ request = NoCall
    /\ response = NoCall

DashUnchanged ==
    /\ UNCHANGED <<today, vietnamese_sessions, COUNTERS>>
    /\ UNCHANGED others

\* GET /api/dashboard.php?action=stats
GetStats ==
    /\ request' = [op |-> "get_stats"]
    /\ response' = [op |-> "get_stats",
                    ret |-> get_stats(vietnamese_sessions, python_sessions,
                                      freelance_projects, settings, today)]
    /\ DashUnchanged

\* GET /api/dashboard.php?action=today
GetToday ==
    /\ request' = [op |-> "get_today"]
    /\ response' = [op |-> "get_today",
                    ret |-> get_today(vietnamese_sessions, python_sessions,
                                      freelance_projects, milestones,
                                      settings, today)]
    /\ DashUnchanged

\* GET /api/dashboard.php?action=recommendations
GetRecommendations ==
    \E choice \in 1..Len(suggestions.vietnamese) :
        /\ request' = [op |-> "get_recommendations"]
        /\ response' =
               [op |-> "get_recommendations",
                ret |-> get_recommendations(vietnamese_sessions,
                                            python_sessions,
                                            freelance_projects, settings,
                                            today, choice)]
        /\ DashUnchanged

\* GET /today; get_upcoming_milestones() writes to the stored milestones
TodayPage ==
    \E choice \in 1..Len(suggestions.vietnamese) :
        /\ request' = [op |-> "today_page"]
        /\ response' =
               [op |-> "today_page",
                ret |-> today_page(vietnamese_sessions, python_sessions,
                                   freelance_projects, milestones, settings,
                                   today, choice)]
        /\ milestones' = StoredAfterUpcoming(milestones, today)
        /\ UNCHANGED <<today, vietnamese_sessions, python_sessions,
                       freelance_projects, settings, notes, learning_path,
                       COUNTERS>>

DashNext ==
    \/ GetStats
    \/ GetToday
    \/ GetRecommendations
    \/ TodayPage

DashSpec == DashInit /\ [][DashNext]_vars

----------------------------------------------------------------------------
(* The settings record under PUT /api/dashboard.php?action=settings and   *)
(* PUT /api/currency.php?action=rates.  A JSON object is a record; a rate  *)
(* is in 1/100000 RON.                                                     *)

\* JSON bodies of the settings PUT: one key, several keys, a key that
\* is not a settings key, and exchange_rates objects that name one, two or
\* all three of the currencies
SettingsBodies ==
    { [income_target |-> 0],
      [income_target |-> 9000],
      [income_target |-> 9000, theme |-> "dark"],
      [theme |-> "dark"],
      [python_weekly_target |-> 10, vietnamese_weekly_target |-> 0],
      [preferred_currency |-> "USD"],
      [exchange_rates |-> [EUR |-> 500000]],
      [exchange_rates |-> [USD |-> 460000, VND |-> 20]],
      [income_target |-> 0, exchange_rates |-> [VND |-> 20]],
      [exchange_rates |-> [EUR |-> 500000, USD |-> 460000, VND |-> 20]] }

\* JSON bodies of PUT /api/currency.php?action=rates
CurrencyBodies ==
    { [rates |-> [EUR |-> 510000]],
      [rates |-> [USD |-> 470000, GBP |-> 580000]],
      [rates |-> [VND |-> 19]],
      [rate |-> 510000] }

\* update_settings that stores every key of the body
update_settings_AddsKeys(st, data) ==
    [key \in DOMAIN st \cup DOMAIN data |->
        IF key \in DOMAIN data THEN data[key] ELSE st[key]]

\* update_settings(), api.py 576-582: every key of the body that is a key
\* of DATA['settings'] gets the body's value
update_settings(st, data) ==
    [key \in DOMAIN st |->
        IF key \in DOMAIN data THEN data[key] ELSE st[key]]

\* "if currency_code in ['EUR', 'USD', 'VND']", api.py 756
RateCodes == {"EUR", "USD", "VND"}

\* the loop of currency(), api.py 755-757, on DATA['settings']
currency_rates(st, rates) ==
    LET old == st.exchange_rates
        codes == DOMAIN rates \cap RateCodes
    IN [st EXCEPT !.exchange_rates =
            [code \in DOMAIN old \cup codes |->
                IF code \in codes THEN rates[code] ELSE old[code]]]

SettingsUnchanged ==
    UNCHANGED <<today, vietnamese_sessions, python_sessions,
                freelance_projects, milestones, notes, learning_path,
                COUNTERS>>

\* PUT /api/dashboard.php?action=settings, api.py 403-405
SettingsPUT ==
    \E data \in SettingsBodies :
        /\ settings' = update_settings(settings, data)
        /\ request' = [op |-> "update_settings", data |-> data]
        /\ response' = [op |-> "update_settings", success |-> TRUE]
        /\ SettingsUnchanged

\* PUT /api/currency.php?action=rates, api.py 751-764
CurrencyPUT ==
    \E data \in CurrencyBodies :
        /\ request' = [op |-> "currency", action |-> "rates", data |-> data]
        /\ IF "rates" \in DOMAIN data
           THEN /\ settings' = currency_rates(settings, data.rates)
                /\ response' = [op |-> "currency", success |-> TRUE,
                                rates |-> settings'.exchange_rates,
                                date |-> today]
           ELSE /\ settings' = settings
                /\ response' = [op |-> "currency", status |-> 400,
                                error |-> "Invalid rates data"]
        /\ SettingsUnchanged

SettingsNext ==
    \/ SettingsPUT
    \/ CurrencyPUT

SettingsSpec == Init /\ [][SettingsNext]_vars

----------------------------------------------------------------------------
(* Create, update and delete of the records of the five collections,       *)
(* api.py 585-718                                                          *)

\* the records created and the records deleted so far, over all collections
Changes ==
    LET created(c) == COUNTERS[c] - SeedCounters[c]
        deleted(c, list) == (COUNTERS[c] - 1) - Len(list)
    IN created("vietnamese") + deleted("vietnamese", vietnamese_sessions)
       + created("python") + deleted("python", python_sessions)
       + created("freelance") + deleted("freelance", freelance_projects)
       + created("milestones") + deleted("milestones", milestones)
       + created("notes") + deleted("notes", notes)

ChangesLeft == Changes < MaxChanges

\* the ids that the update and delete requests of the model address in
\* collection c: the first seeded id, the id issued last, and the next id,
\* which no record has
TargetIds(c) == {1, COUNTERS[c] - 1, COUNTERS[c]}

\* WithoutId that also drops the records with a smaller id
WithoutId_AndOlder(list, id) ==
    SelectSeq(list, LAMBDA r : r.id > id)

\* [r for r in list if r['id'] != id]
WithoutId(list, id) ==
    SelectSeq(list, LAMBDA r : r.id # id)

\* WithoutIdKey that keeps the key 'id'
WithoutIdKey_Kept(data) == data

\* "{k: v for k, v in data.items() if k != 'id'}", api.py 606 and 709
WithoutIdKey(data) ==
    [key \in DOMAIN data \ {"id"} |-> data[key]]

\* the loop of the PUT branches, api.py 604-607 and 707-710: the first
\* record with the id is updated
RECURSIVE UpdateFirst(_, _, _)
UpdateFirst(list, id, data) ==
    IF Len(list) = 0 THEN << >>
    ELSE IF Head(list).id = id
    THEN <<DictUpdate(Head(list), WithoutIdKey(data))>> \o Tail(list)
    ELSE <<Head(list)>> \o UpdateFirst(Tail(list), id, data)

PythonBodies == { [session_date |-> FirstDay, hours |-> 10] }
FreelanceBodies ==
    { [title |-> "Dashboard", project_date |-> FirstDay, amount |-> 500,
       hours |-> 2] }
MilestoneBodies == { [title |-> "Book flight", target_date |-> FirstDay + 1] }
NoteBodies == { [title |-> "Visa"] }
MilestoneUpdates == { [id |-> 9, title |-> "Renamed", completed |-> TRUE] }
NoteUpdates == { [id |-> 9, content |-> "Edited"] }

\* handle_vietnamese(), POST, while changes are left
VietnamesePOST ==
    /\ ChangesLeft
    /\ handle_vietnamese_POST
    /\ request'.session_date = today
    /\ request'.minutes = 15

\* handle_vietnamese(), DELETE, of one of the target ids
VietnameseDELETE ==
    /\ handle_vietnamese_DELETE
    /\ request'.id \in TargetIds("vietnamese")
    /\ Len(vietnamese_sessions') < Len(vietnamese_sessions) => ChangesLeft

\* handle_python(), POST: api.py 620-631
handle_python_POST ==
    \E data \in PythonBodies :
        /\ ChangesLeft
        /\ LET session == [id |-> COUNTERS.python,
                           session_date |-> data.session_date,
                           hours |-> data.hours]
           IN /\ COUNTERS' = [COUNTERS EXCEPT !.python = @ + 1]
              /\ python_sessions' = <<session>> \o python_sessions
              /\ request' = [op |-> "POST python", data |-> data]
              /\ response' = [op |-> "POST python", success |-> TRUE,
                              id |-> session.id]
        /\ UNCHANGED <<today, vietnamese_sessions, freelance_projects,
                       settings, milestones, notes, learning_path>>

\* handle_python(), DELETE: api.py 633-636
handle_python_DELETE ==
    \E session_id \in TargetIds("python") :
        /\ python_sessions' = WithoutId(python_sessions, session_id)
        /\ Len(python_sessions') < Len(python_sessions) => ChangesLeft
        /\ request' = [op |-> "DELETE python", id |-> session_id]
        /\ response' = [op |-> "DELETE python", success |-> TRUE]
        /\ UNCHANGED <<today, vietnamese_sessions, freelance_projects,
                       settings, milestones, notes, learning_path, COUNTERS>>

\* handle_freelance(), POST: api.py 666-679
handle_freelance_POST ==
    \E data \in FreelanceBodies :
        /\ ChangesLeft
        /\ LET project == [id |-> COUNTERS.freelance,
                           project_date |-> data.project_date,
                           amount |-> data.amount,
                           hours |-> data.hours]
           IN /\ COUNTERS' = [COUNTERS EXCEPT !.freelance = @ + 1]
              /\ freelance_projects' = <<project>> \o freelance_projects
              /\ request' = [op |-> "POST freelance", data |-> data]
              /\ response' = [op |-> "POST freelance", success |-> TRUE,
                              id |-> project.id]
        /\ UNCHANGED <<today, vietnamese_sessions, python_sessions,
                       settings, milestones, notes, learning_path>>

\* handle_freelance(), DELETE: api.py 681-684
handle_freelance_DELETE ==
    \E project_id \in TargetIds("freelance") :
        /\ freelance_projects' = WithoutId(freelance_projects, project_id)
        /\ Len(freelance_projects') < Len(freelance_projects) => ChangesLeft
        /\ request' = [op |-> "DELETE freelance", id |-> project_id]
        /\ response' = [op |-> "DELETE freelance", success |-> TRUE]
        /\ UNCHANGED <<today, vietnamese_sessions, python_sessions,
                       settings, milestones, notes, learning_path, COUNTERS>>

\* handle_milestones(), POST: api.py 587-599; data.get('category') of a
\* body without the key is None
handle_milestones_POST ==
    \E data \in MilestoneBodies :
        /\ ChangesLeft
        /\ LET milestone == [id |-> COUNTERS.milestones,
                             title |-> data.title,
                             target_date |-> data.target_date,
                             category |-> Null,
                             notes |-> "",
                             completed |-> FALSE]
           IN /\ COUNTERS' = [COUNTERS EXCEPT !.milestones = @ + 1]
              /\ milestones' = Append(milestones, milestone)
              /\ request' = [op |-> "POST milestones", data |-> data]
              /\ response' = [op |-> "POST milestones", success |-> TRUE,
                              id |-> milestone.id]
        /\ UNCHANGED <<today, vietnamese_sessions, python_sessions,
                       freelance_projects, settings, notes, learning_path>>

\* handle_milestones(), PUT: api.py 601-608
handle_milestones_PUT ==
    \E milestone_id \in TargetIds("milestones"), data \in MilestoneUpdates :
        /\ milestones' = UpdateFirst(milestones, milestone_id, data)
        /\ request' = [op |-> "PUT milestones", id |-> milestone_id,
                       data |-> data]
        /\ response' = [op |-> "PUT milestones", success |-> TRUE]
        /\ UNCHANGED <<today, vietnamese_sessions, python_sessions,
                       freelance_projects, settings, notes, learning_path,
                       COUNTERS>>

\* handle_milestones(), DELETE: api.py 610-613
handle_milestones_DELETE ==
    \E milestone_id \in TargetIds("milestones") :
        /\ milestones' = WithoutId(milestones, milestone_id)
        /\ Len(milestones') < Len(milestones) => ChangesLeft
        /\ request' = [op |-> "DELETE milestones", id |-> milestone_id]
        /\ response' = [op |-> "DELETE milestones", success |-> TRUE]
        /\ UNCHANGED <<today, vietnamese_sessions, python_sessions,
                       freelance_projects, settings, notes, learning_path,
                       COUNTERS>>

\* handle_notes(), POST: api.py 691-702; created_at is the day of
\* datetime.now()
handle_notes_POST ==
    \E data \in NoteBodies :
        /\ ChangesLeft
        /\ LET note == [id |-> COUNTERS.notes,
                        title |-> data.title,
                        category |-> "",
                        content |-> "",
                        created_at |-> today]
           IN /\ COUNTERS' = [COUNTERS EXCEPT !.notes = @ + 1]
              /\ notes' = <<note>> \o notes
              /\ request' = [op |-> "POST notes", data |-> data]
              /\ response' = [op |-> "POST notes", success |-> TRUE,
                              id |-> note.id]
        /\ UNCHANGED <<today, vietnamese_sessions, python_sessions,
                       freelance_projects, settings, milestones,
                       learning_path>>

\* handle_notes(), PUT: api.py 704-711
handle_notes_PUT ==
    \E note_id \in TargetIds("notes"), data \in NoteUpdates :
        /\ notes' = UpdateFirst(notes, note_id, data)
        /\ request' = [op |-> "PUT notes", id |-> note_id, data |-> data]
        /\ response' = [op |-> "PUT notes", success |-> TRUE]
        /\ UNCHANGED <<today, vietnamese_sessions, python_sessions,
                       freelance_projects, settings, milestones,
                       learning_path, COUNTERS>>

\* handle_notes(), DELETE: api.py 713-716
handle_notes_DELETE ==
    \E note_id \in TargetIds("notes") :
        /\ notes' = WithoutId(notes, note_id)
        /\ Len(notes') < Len(notes) => ChangesLeft
        /\ request' = [op |-> "DELETE notes", id |-> note_id]
        /\ response' = [op |-> "DELETE notes", success |-> TRUE]
        /\ UNCHANGED <<today, vietnamese_sessions, python_sessions,
                       freelance_projects, settings, milestones,
                       learning_path, COUNTERS>>

CrudNext ==
    \/ VietnamesePOST
    \/ VietnameseDELETE
    \/ handle_python_POST
    \/ handle_python_DELETE
    \/ handle_freelance_POST
    \/ handle_freelance_DELETE
    \/ handle_milestones_POST
    \/ handle_milestones_PUT
    \/ handle_milestones_DELETE
    \/ handle_notes_POST
    \/ handle_notes_PUT
    \/ handle_notes_DELETE

CrudSpec == Init /\ [][CrudNext]_vars

----------------------------------------------------------------------------
(* The learning path under PUT /api/dashboard.php?action=learning_path,    *)
(* api.py 721-734                                                          *)

SkillIdChoices == {"python_basics", "file_io", "no_such_skill"}
UrlChoices == {"", "https://github.com/a/one", "https://github.com/a/two"}

\* JSON bodies of the PUT: a skill_id alone, with 'completed', with
\* 'project_url', and with both
LearningBodies ==
    { [skill_id |-> s] : s \in SkillIdChoices }
    \cup { [skill_id |-> s, completed |-> c] :
               s \in SkillIdChoices, c \in BOOLEAN }
    \cup { [skill_id |-> s, project_url |-> u] :
               s \in SkillIdChoices, u \in UrlChoices }
    \cup { [skill_id |-> s, completed |-> c, project_url |-> u] :
               s \in SkillIdChoices, c \in BOOLEAN, u \in UrlChoices }

\* data.get(key, default)
Get(data, key, default) ==
    IF key \in DOMAIN data THEN data[key] ELSE default

\* the truth value of a string or None in "if data.get('project_url')"
Truthy(value) == value # Null /\ value # ""

\* the body of the loop, api.py 728-730, on the skill that matched
UpdatedSkill(skill, data) ==
    LET completed == Get(data, "completed", FALSE)
    IN IF Truthy(Get(data, "project_url", Null))
       THEN [skill EXCEPT !.completed = completed,
                          !.project_url = data.project_url]
       ELSE [skill EXCEPT !.completed = completed]

\* UpdateSkill that appends a skill when no skill has the skill_id
RECURSIVE UpdateSkill_Upsert(_, _)
UpdateSkill_Upsert(path, data) ==
    IF Len(path) = 0
    THEN <<UpdatedSkill([skill_id |-> data.skill_id, skill_name |-> "",
                         phase |-> 1, completed |-> FALSE,
                         project_url |-> Null], data)>>
    ELSE IF Head(path).skill_id = Get(data, "skill_id", Null)
    THEN <<UpdatedSkill(Head(path), data)>> \o Tail(path)
    ELSE <<Head(path)>> \o UpdateSkill_Upsert(Tail(path), data)

\* the loop of handle_learning_path(), api.py 726-731: the first skill with
\* the skill_id is updated
RECURSIVE UpdateSkill(_, _)
UpdateSkill(path, data) ==
    IF Len(path) = 0 THEN << >>
    ELSE IF Head(path).skill_id = Get(data, "skill_id", Null)
    THEN <<UpdatedSkill(Head(path), data)>> \o Tail(path)
    ELSE <<Head(path)>> \o UpdateSkill(Tail(path), data)

\* handle_learning_path(), PUT: api.py 723-732
handle_learning_path_PUT ==
    \E data \in LearningBodies :
        /\ learning_path' = UpdateSkill(learning_path, data)
        /\ request' = [op |-> "PUT learning_path", data |-> data]
        /\ response' = [op |-> "PUT learning_path", success |-> TRUE]
        /\ UNCHANGED <<today, vietnamese_sessions, python_sessions,
                       freelance_projects, settings, milestones, notes,
                       COUNTERS>>

LearningNext == handle_learning_path_PUT

LearningSpec == Init /\ [][LearningNext]_vars

----------------------------------------------------------------------------
(* Properties of the streak calculators, checked under Spec *)

Dates == SessionDates(vietnamese_sessions)

\* the length of the maximal run of consecutive session days ending at day d:
\* the n for which d, d-1, .., d-n+1 all have a session and d-n has none
MaxRunEndingAt(d) ==
    CHOOSE n \in 0..(Cardinality(Dates) + 1) :
        /\ \A i \in 0..(n - 1) : (d - i) \in Dates
        /\ (d - n) \notin Dates

GraceReturned == response.op = "calculate_streak_with_grace"
StreakReturned == response.op = "calculate_streak"

\* C1: when a language session is dated today, calculate_streak_with_grace()
\* and calculate_streak() both return the length of the maximal run of
\* consecutive session days ending today, and the grace result has at_risk
\* false, grace_active false and practiced_today true.
C1_StreakEndingToday ==
    today \in Dates =>
        /\ GraceReturned =>
              response.ret = StreakInfo(MaxRunEndingAt(today),
                                        FALSE, FALSE, TRUE)
        /\ StreakReturned => response.ret = MaxRunEndingAt(today)

\* sessions on three consecutive days ending today give a streak of 3
C1_Witness ==
    /\ GraceReturned
    /\ {today, today - 1, today - 2} \subseteq Dates
    /\ (today - 3) \notin Dates
    /\ response.ret.streak = 3
    /\ response.ret.practiced_today

\* C2: when yesterday has a session and today has none,
\* calculate_streak_with_grace() returns the length of the maximal run of
\* consecutive session days ending yesterday, with at_risk true, grace_active
\* true and practiced_today false.
C2_GraceFromYesterday ==
    (GraceReturned /\ today \notin Dates /\ (today - 1) \in Dates) =>
        response.ret = StreakInfo(MaxRunEndingAt(today - 1),
                                  TRUE, TRUE, FALSE)

\* sessions on the two days before today only: streak 2, at risk
C2_Witness ==
    /\ GraceReturned
    /\ Dates = {today - 1, today - 2}
    /\ response.ret = StreakInfo(2, TRUE, TRUE, FALSE)

\* C3 as stated: calculate_streak() is 0 whenever no session is dated today.
C3_StrictNoLookBack ==
    (StreakReturned /\ today \notin Dates) => response.ret = 0

\* C3 as amended: when no session is dated today, calculate_streak() looks
\* back one day: it returns the length of the maximal run of consecutive
\* session days ending yesterday when yesterday has a session, and 0 only
\* when yesterday has none either.
C3_LookBackToYesterday ==
    (StreakReturned /\ today \notin Dates) =>
        response.ret = IF (today - 1) \in Dates
                       THEN MaxRunEndingAt(today - 1)
                       ELSE 0

\* no session today, sessions yesterday and the day before: the streak is 2
C3_Witness ==
    /\ StreakReturned
    /\ today \notin Dates
    /\ {today - 1, today - 2} \subseteq Dates
    /\ (today - 3) \notin Dates
    /\ response.ret = 2

\* C4: when neither today nor yesterday has a session,
\* calculate_streak_with_grace() returns streak 0 and all three flags false,
\* however many sessions are two or more days old, and also when the
\* collection is empty.
C4_BrokenStreakIsZero ==
    (GraceReturned /\ today \notin Dates /\ (today - 1) \notin Dates) =>
        response.ret = StreakInfo(0, FALSE, FALSE, FALSE)

\* two sessions on consecutive days, the later one two days ago: all zero
C4_Witness ==
    /\ GraceReturned
    /\ {today - 2, today - 3} \subseteq Dates
    /\ today \notin Dates
    /\ (today - 1) \notin Dates
    /\ response.ret = StreakInfo(0, FALSE, FALSE, FALSE)

\* C5: grace lasts one day: when the grace result of day d is at_risk with a
\* streak of at least 1 and the calendar moves on to day d+1, with no session
\* dated d+1, the grace result of day d+1 is streak 0 and at_risk false.
C5_GraceLastsOneDay ==
    [][ ( /\ calculate_streak_with_grace(vietnamese_sessions, today).at_risk
          /\ calculate_streak_with_grace(vietnamese_sessions, today).streak
                 >= 1
          /\ today' = today + 1
          /\ today' \notin SessionDates(vietnamese_sessions') )
        => ( /\ calculate_streak_with_grace(vietnamese_sessions',
                                            today').streak = 0
             /\ ~calculate_streak_with_grace(vietnamese_sessions',
                                             today').at_risk ) ]_vars

\* the day after an at-risk day that passed without a session: the run that
\* ended two days ago is no longer reported
C5_Witness ==
    /\ GraceReturned
    /\ today > FirstDay
    /\ calculate_streak_with_grace(vietnamese_sessions, today - 1).at_risk
    /\ calculate_streak_with_grace(vietnamese_sessions, today - 1).streak >= 2
    /\ today \notin Dates
    /\ response.ret.streak = 0
    /\ ~response.ret.at_risk

----------------------------------------------------------------------------
(* Properties of determine_daily_focus, checked under FocusSpec *)

FocusReturned == response.op = "determine_daily_focus"

PoolOf(pool) == { pool[i] : i \in 1..Len(pool) }

\* the streak-protection condition, in the words of the claims
StreakAtRisk ==
    request.streak_info.at_risk = TRUE
        /\ request.streak_info.practiced_today = FALSE

VnBehind == request.vn_percent < request.py_percent /\ request.vn_percent < 70
PyBehind == request.py_percent < request.vn_percent /\ request.py_percent < 70

\* C6: whenever streak_info has at_risk true and practiced_today false the
\* result is area 'vietnamese', priority 'urgent', whatever the percents are.
C6_StreakRuleFirst ==
    (FocusReturned /\ StreakAtRisk) =>
        response.ret.area = "vietnamese" /\ response.ret.priority = "urgent"

\* rule 1 and rule 2 both match, and rule 1 wins
C6_Witness ==
    /\ FocusReturned
    /\ StreakAtRisk
    /\ VnBehind
    /\ response.ret.area = "vietnamese"
    /\ response.ret.priority = "urgent"

\* C7: when rule 1 does not trigger, the result is vietnamese/high with a
\* suggestion of the vietnamese pool exactly when vn_percent < py_percent and
\* vn_percent < 70, and python/high with a suggestion of the python pool
\* exactly when py_percent < vn_percent and py_percent < 70; the two
\* conditions exclude each other and 'high' is returned in no other case.
C7_CatchUpRules ==
    FocusReturned =>
        /\ ~(VnBehind /\ PyBehind)
        /\ ~StreakAtRisk =>
              /\ VnBehind <=> ( /\ response.ret.area = "vietnamese"
                                /\ response.ret.priority = "high" )
              /\ VnBehind =>
                    response.ret.suggestion \in PoolOf(suggestions.vietnamese)
              /\ PyBehind <=> ( /\ response.ret.area = "python"
                                /\ response.ret.priority = "high" )
              /\ PyBehind =>
                    response.ret.suggestion \in PoolOf(suggestions.python)
        /\ response.ret.priority = "high" =>
              ~StreakAtRisk /\ (VnBehind \/ PyBehind)

\* vietnamese below 70 and behind python, no streak at risk: vietnamese/high
C7_Witness ==
    /\ FocusReturned
    /\ ~StreakAtRisk
    /\ VnBehind
    /\ response.ret.area = "vietnamese"
    /\ response.ret.priority = "high"
    /\ response.ret.suggestion \in PoolOf(suggestions.vietnamese)

\* C8: when rule 1 does not trigger, both learning percents are >= 70 and
\* income_percent < 50, the result is freelance/medium with a suggestion of
\* the freelance pool, also when both learning percents are >= 80.
C8_IncomeLagging ==
    ( /\ FocusReturned
      /\ ~StreakAtRisk
      /\ request.py_percent >= 70
      /\ request.vn_percent >= 70
      /\ request.income_percent < 50 ) =>
        /\ response.ret.area = "freelance"
        /\ response.ret.priority = "medium"
        /\ response.ret.suggestion \in PoolOf(suggestions.freelance)

\* both learning percents at 80 or more and income below 50: freelance
C8_Witness ==
    /\ FocusReturned
    /\ ~StreakAtRisk
    /\ request.py_percent >= 80
    /\ request.vn_percent >= 80
    /\ request.income_percent < 50
    /\ response.ret.area = "freelance"

\* C9: the result is balanced/low, with a suggestion of the balanced pool,
\* exactly when rule 1 does not trigger, both learning percents are >= 80 and
\* income_percent >= 50; with both learning percents >= 80 the area is
\* 'balanced' or 'freelance', or 'vietnamese' with priority 'urgent'.
C9_EverythingExcellent ==
    FocusReturned =>
        /\ ( /\ ~StreakAtRisk
             /\ request.py_percent >= 80
             /\ request.vn_percent >= 80
             /\ request.income_percent >= 50 )
           <=> (response.ret.area = "balanced" /\ response.ret.priority = "low")
        /\ response.ret.area = "balanced" =>
              response.ret.suggestion \in PoolOf(suggestions.balanced)
        /\ response.ret.priority = "low" => response.ret.area = "balanced"
        /\ (request.py_percent >= 80 /\ request.vn_percent >= 80) =>
              \/ response.ret.area \in {"balanced", "freelance"}
              \/ ( /\ response.ret.area = "vietnamese"
                   /\ response.ret.priority = "urgent"
                   /\ StreakAtRisk )

\* both learning percents exactly 80, income exactly 50: balanced
C9_Witness ==
    /\ FocusReturned
    /\ request.py_percent = 80
    /\ request.vn_percent = 80
    /\ request.income_percent = 50
    /\ response.ret.area = "balanced"
    /\ response.ret.priority = "low"

\* none of the rules 1 to 5 matches, in the words of the claims
NoRuleMatches ==
    /\ ~StreakAtRisk
    /\ ~VnBehind
    /\ ~PyBehind
    /\ ~( /\ request.py_percent >= 70
          /\ request.vn_percent >= 70
          /\ request.income_percent < 50 )
    /\ ~(request.py_percent >= 80 /\ request.vn_percent >= 80)

\* C10: determine_daily_focus returns one well-formed record for every
\* input; when none of the rules 1 to 5 matches the record is 'medium' for
\* the track with the lower percent, python when py_percent <= vn_percent
\* and vietnamese only when vn_percent < py_percent, with a suggestion of
\* that track's pool.
C10_TotalWithDefault ==
    FocusReturned =>
        /\ DOMAIN response.ret =
               {"area", "priority", "reason", "suggestion", "icon"}
        /\ response.ret.area \in
               {"vietnamese", "python", "freelance", "balanced"}
        /\ response.ret.priority \in {"urgent", "high", "medium", "low"}
        /\ NoRuleMatches =>
              /\ response.ret.priority = "medium"
              /\ response.ret.area =
                     IF request.py_percent <= request.vn_percent
                     THEN "python" ELSE "vietnamese"
              /\ response.ret.suggestion \in
                     PoolOf(suggestions[response.ret.area])

\* a tie between the two tracks in the default rule goes to python
C10_Witness ==
    /\ FocusReturned
    /\ NoRuleMatches
    /\ request.py_percent = request.vn_percent
    /\ response.ret.area = "python"
    /\ response.ret.priority = "medium"

\* the sum of f[x] over the x of the finite set S
RECURSIVE SumOver(_, _)
SumOver(f, S) ==
    IF S = {} THEN 0
    ELSE LET x == CHOOSE y \in S : TRUE
         IN f[x] + SumOver(f, S \ {x})

\* the minutes of the language sessions dated today
MinutesToday ==
    SumOver([i \in 1..Len(vietnamese_sessions) |->
                 vietnamese_sessions[i].minutes],
            { i \in 1..Len(vietnamese_sessions) :
                 vietnamese_sessions[i].session_date = today })

\* C11: when rule 1 triggers, the suggestion names max(15, 60 - minutes_today)
\* minutes, where minutes_today is the sum of the minutes of the language
\* sessions dated today; that number is between 15 and 60, and the reason
\* names the streak length streak_info.streak.
C11_StreakTopUp ==
    (FocusReturned /\ StreakAtRisk) =>
        /\ response.ret.suggestion =
               <<"Just ",
                 IF 60 - MinutesToday > 15 THEN 60 - MinutesToday ELSE 15,
                 " more minutes to keep it alive">>
        /\ response.ret.suggestion[2] >= 15
        /\ response.ret.suggestion[2] <= 60
        /\ response.ret.reason =
               <<"Your ", request.streak_info.streak,
                 "-day streak is at risk!">>

\* fifteen minutes logged today and a streak of 1 at risk: 45 minutes named
C11_Witness ==
    /\ FocusReturned
    /\ StreakAtRisk
    /\ MinutesToday = 15
    /\ request.streak_info.streak = 1
    /\ response.ret.suggestion[2] = 45
    /\ response.ret.reason[2] = 1

----------------------------------------------------------------------------
(* Properties of the grade and the goal adjustment, checked under          *)
(* SummarySpec                                                             *)

SummaryReturned == response.op = "weekly_summary"

PercentTotal ==
    request.py_percent + request.vn_percent + request.income_percent

GradeRank(g) ==
    CASE g = "A" -> 4 [] g = "B" -> 3 [] g = "C" -> 2 [] g = "D" -> 1

\* C13: the grade depends on the mean of the three percents only: 'A' iff
\* the mean is >= 90 (the sum >= 270), 'B' iff 75 <= mean < 90, 'C' iff
\* 60 <= mean < 75, 'D' iff mean < 60; and the grade does not decrease when
\* one of the percents increases.
C13_GradeBoundaries ==
    SummaryReturned =>
        /\ response.grade = "A" <=> PercentTotal >= 270
        /\ response.grade = "B" <=> (PercentTotal >= 225 /\ PercentTotal < 270)
        /\ response.grade = "C" <=> (PercentTotal >= 180 /\ PercentTotal < 225)
        /\ response.grade = "D" <=> PercentTotal < 180
        /\ \A p \in 0..100 :
              /\ p >= request.py_percent =>
                    GradeRank(Grade(p, request.vn_percent,
                                    request.income_percent))
                        >= GradeRank(response.grade)
              /\ p >= request.vn_percent =>
                    GradeRank(Grade(request.py_percent, p,
                                    request.income_percent))
                        >= GradeRank(response.grade)
              /\ p >= request.income_percent =>
                    GradeRank(Grade(request.py_percent, request.vn_percent,
                                    p))
                        >= GradeRank(response.grade)

\* the percents add up to exactly 270: an 'A'
C13_Witness ==
    /\ SummaryReturned
    /\ PercentTotal = 270
    /\ response.grade = "A"

\* floor(target * 0.7): the k with k <= 0.7 * target < k + 1
FloorSeventyPercent(target) ==
    CHOOSE k \in 0..target : 10 * k <= 7 * target /\ 7 * target < 10 * (k + 1)

----------------------------------------------------------------------------
(* Properties of the snapshots, checked under DashSpec *)

Returned(op) == response.op = op

\* C12: with a weekly target or the income target equal to 0, the
\* corresponding percent is 100 in the recommendations snapshot, in the
\* today snapshot and in the today page.
C12_ZeroTargetFullPercent ==
    /\ Returned("get_recommendations") =>
         LET s == response.ret.weekly_summary
         IN /\ settings.python_weekly_target = 0 => s.python_percent = 100
            /\ settings.vietnamese_weekly_target = 0
                   => s.vietnamese_percent = 100
            /\ settings.income_target = 0 => s.income_percent = 100
    /\ Returned("get_today") =>
         /\ settings.python_weekly_target = 0
                => response.ret.python.weekProgress = 100
         /\ settings.vietnamese_weekly_target = 0
                => response.ret.vietnamese.weekProgress = 100
         /\ settings.income_target = 0 => response.ret.income.progress = 100
    /\ Returned("today_page") =>
         /\ settings.python_weekly_target = 0
                => response.ret.python.week_progress = 100
         /\ settings.vietnamese_weekly_target = 0
                => response.ret.vietnamese.week_progress = 100
         /\ settings.income_target = 0 => response.ret.income.progress = 100

\* the minutes of all language sessions
TotalMinutes ==
    SumOver([i \in 1..Len(vietnamese_sessions) |->
                 vietnamese_sessions[i].minutes],
            1..Len(vietnamese_sessions))

\* C15: the remaining hours of the pacing projection are never negative;
\* when the language total is 600 hours or more, the required weekly rate
\* is 0 for every target date and every today, and on_track is true for
\* every weekly target, a target of 0 included.
C15_NothingLeftToPace ==
    Returned("get_recommendations") =>
        LET pace == response.ret.pace
        IN /\ pace.vietnamese_remaining_hours >= 0
           /\ pace.vietnamese_required_weekly >= 0
           /\ TotalMinutes >= 600 * 60 =>
                  /\ pace.vietnamese_remaining_hours = 0
                  /\ pace.vietnamese_required_weekly = 0
                  /\ pace.on_track

C15_Witness ==
    /\ Returned("get_recommendations")
    /\ TotalMinutes = 600 * 60
    /\ settings.vietnamese_weekly_target = 0
    /\ settings.target_date < today
    /\ response.ret.pace.vietnamese_required_weekly = 0
    /\ response.ret.pace.on_track

\* the exact remaining minutes, max(0, 600 h - total)
ExactMinutesRemaining ==
    IF TotalMinutes >= 600 * 60 THEN 0 ELSE 600 * 60 - TotalMinutes

\* C16 as stated: the reported weeks_remaining is at least 1 and the
\* required weekly rate never exceeds the exact hours_remaining (the rate is
\* in tenths of an hour and the remainder in minutes, so that
\* rate / 10 <= minutes / 60 reads 6 * rate <= minutes).
C16_RateWithinRemaining ==
    Returned("get_recommendations") =>
        /\ response.ret.pace.weeks_remaining >= 1
        /\ 6 * response.ret.pace.vietnamese_required_weekly
               <= ExactMinutesRemaining

\* C16, amended: for every today, on or after the target date and fewer
\* than 7 days before it included, the reported weeks_remaining is at
\* least 1 (the whole weeks left, and 1 when less than a week is left), and
\* the required weekly rate
\* is between 0 and hours_remaining rounded to one decimal (the reported
\* vietnamese_remaining_hours); the two are equal when a week or less is
\* left.
C16_RateWithinRoundedRemaining ==
    Returned("get_recommendations") =>
        LET pace == response.ret.pace
            days == settings.target_date - today
        IN /\ pace.weeks_remaining >= 1
           /\ pace.weeks_remaining = (IF days >= 7 THEN days \div 7 ELSE 1)
           /\ pace.vietnamese_required_weekly >= 0
           /\ pace.vietnamese_required_weekly
                  <= pace.vietnamese_remaining_hours
           /\ days <= 7 => pace.vietnamese_required_weekly
                               = pace.vietnamese_remaining_hours

C16_Witness ==
    /\ Returned("get_recommendations")
    /\ settings.target_date < today
    /\ response.ret.pace.weeks_remaining = 1
    /\ response.ret.pace.vietnamese_required_weekly > 0
    /\ 6 * response.ret.pace.vietnamese_required_weekly
           > ExactMinutesRemaining

\* the sum of the minutes (hours) of the sessions dated from a to b,
\* both included
MinutesBetween(a, b) ==
    SumOver([i \in 1..Len(vietnamese_sessions) |->
                 vietnamese_sessions[i].minutes],
            { i \in 1..Len(vietnamese_sessions) :
                 /\ a <= vietnamese_sessions[i].session_date
                 /\ vietnamese_sessions[i].session_date <= b })

HoursBetween(a, b) ==
    SumOver([i \in 1..Len(python_sessions) |-> python_sessions[i].hours],
            { i \in 1..Len(python_sessions) :
                 /\ a <= python_sessions[i].session_date
                 /\ python_sessions[i].session_date <= b })

\* the Monday on or before day d: day 4 (2026-08-31) is a Monday
MondayOnOrBefore(d) ==
    CHOOSE m \in (d - 6)..d : (m - 4) % 7 = 0

\* C17: get_week_dates returns the Monday of today's week and the day 6
\* days later, with today between them; every 'this week' total of the
\* stats and today snapshots is the sum over exactly the records dated from
\* week_start to week_end, both included, and 0 when there is none.
C17_WeekWindow ==
    LET week == get_week_dates(today)
        start == MondayOnOrBefore(today)
    IN /\ week.week_start = start
       /\ week.week_end = start + 6
       /\ week.week_start <= today /\ today <= week.week_end
       /\ Returned("get_stats") =>
            /\ response.ret.python.thisWeek = HoursBetween(start, start + 6)
            /\ response.ret.vietnamese.thisWeek
                   = RoundTenths(MinutesBetween(start, start + 6), 60)
       /\ Returned("get_today") =>
            /\ response.ret.python.weekHours = HoursBetween(start, start + 6)
            /\ response.ret.vietnamese.weekMinutes
                   = MinutesBetween(start, start + 6)
            /\ (vietnamese_sessions = << >>
                    => response.ret.vietnamese.weekMinutes = 0)

\* today is the last day of its week and has a python session, which is
\* counted in the week's hours
C17_Witness ==
    /\ Returned("get_today")
    /\ get_week_dates(today).week_end = today
    /\ \E i \in 1..Len(python_sessions) :
           python_sessions[i].session_date = today
    /\ response.ret.python.weekHours = HoursBetween(today - 6, today)
    /\ response.ret.python.weekHours > HoursBetween(today - 6, today - 1)

\* the sum of the amounts of the income events dated from a to b, both
\* included
AmountBetween(a, b) ==
    SumOver([i \in 1..Len(freelance_projects) |->
                 freelance_projects[i].amount],
            { i \in 1..Len(freelance_projects) :
                 /\ a <= freelance_projects[i].project_date
                 /\ freelance_projects[i].project_date <= b })

\* the first day of the month of day d: day 5 is 2026-09-01 and day -26 is
\* 2026-08-01
FirstOfMonth(d) == IF d >= 5 THEN 5 ELSE -26

\* C18: the month's income total is the sum of the amounts of exactly the
\* income events dated from the first day of the current month to today,
\* so an event dated after today is not counted.
C18_MonthWindowEndsToday ==
    /\ Returned("get_stats") =>
           response.ret.freelance.incomeThisMonth
               = AmountBetween(FirstOfMonth(today), today)
    /\ Returned("get_recommendations") =>
           response.ret.weekly_summary.income_current
               = AmountBetween(FirstOfMonth(today), today)

----------------------------------------------------------------------------
(* Properties of the settings record, checked under SettingsSpec *)

OtherSettingsKeys ==
    {"target_date", "python_weekly_target", "vietnamese_weekly_target",
     "savings", "monthly_burn", "preferred_currency", "github_username",
     "exchange_rates"}

\* C19: a settings update changes exactly the settings keys its body
\* supplies, to the supplied values, and adds no key: a body with only
\* income_target leaves every other key and every exchange rate as it was,
\* and a key that is not a settings key is not stored.
C19_OnlySuppliedKeysChange ==
    [][request'.op = "update_settings" =>
          LET data == request'.data
          IN /\ DOMAIN settings' = DOMAIN settings
             /\ \A key \in DOMAIN settings :
                    settings'[key] = IF key \in DOMAIN data
                                     THEN data[key] ELSE settings[key]
             /\ DOMAIN data = {"income_target"} =>
                    /\ settings'.income_target = data.income_target
                    /\ \A key \in OtherSettingsKeys :
                           settings'[key] = settings[key]
                    /\ DOMAIN settings'.exchange_rates
                           = DOMAIN settings.exchange_rates
                    /\ \A code \in DOMAIN settings.exchange_rates :
                           settings'.exchange_rates[code]
                               = settings.exchange_rates[code]]_vars

\* an update with only income_target, and one with a key that is not a
\* settings key, have been applied
C19_Witness ==
    /\ request.op = "update_settings"
    /\ "income_target" \in DOMAIN request.data
    /\ DOMAIN request.data \subseteq {"income_target", "theme"}
    /\ settings.income_target = request.data.income_target
    /\ settings.income_target # SeedSettings.income_target
    /\ "theme" \notin DOMAIN settings
    /\ settings.exchange_rates # SeedSettings.exchange_rates

\* C20: a settings update whose exchange_rates object names only some
\* currency codes sets those rates and leaves the rates of the other codes
\* present and unchanged, after any sequence of settings and rate updates.
C20_RatesMergePerKey ==
    [][(request'.op = "update_settings"
            /\ "exchange_rates" \in DOMAIN request'.data) =>
          LET rates == request'.data.exchange_rates
          IN /\ \A code \in DOMAIN rates :
                    /\ code \in DOMAIN settings'.exchange_rates
                    /\ settings'.exchange_rates[code] = rates[code]
             /\ \A code \in DOMAIN settings.exchange_rates \ DOMAIN rates :
                    /\ code \in DOMAIN settings'.exchange_rates
                    /\ settings'.exchange_rates[code]
                           = settings.exchange_rates[code]]_vars

----------------------------------------------------------------------------
(* Properties of the collections, checked under CrudSpec *)

Ids(list) == { list[i].id : i \in 1..Len(list) }

IdSeq(list) == [i \in 1..Len(list) |-> list[i].id]

\* the ids of a collection are pairwise distinct and below its counter
IdsDistinctBelow(list, counter) ==
    /\ \A i, j \in 1..Len(list) : list[i].id = list[j].id => i = j
    /\ \A id \in Ids(list) : 1 <= id /\ id < counter

AllIdsDistinctBelow ==
    /\ IdsDistinctBelow(vietnamese_sessions, COUNTERS.vietnamese)
    /\ IdsDistinctBelow(python_sessions, COUNTERS.python)
    /\ IdsDistinctBelow(freelance_projects, COUNTERS.freelance)
    /\ IdsDistinctBelow(milestones, COUNTERS.milestones)
    /\ IdsDistinctBelow(notes, COUNTERS.notes)

\* a create of collection c returned the counter, which is above every id
\* that a record of the collection had, and moved the counter up by one
CreateIssuedNextId(op, c, old, new) ==
    request'.op = op =>
        /\ response'.id = COUNTERS[c]
        /\ COUNTERS'[c] = COUNTERS[c] + 1
        /\ \A id \in Ids(old) : id < response'.id
        /\ Ids(new) = Ids(old) \cup {response'.id}

\* C21: in every collection the ids of the records are pairwise distinct;
\* a create returns the counter of the collection, which is above every id
\* issued before (no counter ever goes down, and every id of a record is
\* below the counter), also after deletes; and an update leaves the id of
\* every record as it was.
C21_IdsDistinctAndIncreasing ==
    [][/\ AllIdsDistinctBelow
       /\ AllIdsDistinctBelow'
       /\ \A c \in DOMAIN COUNTERS : COUNTERS'[c] >= COUNTERS[c]
       /\ CreateIssuedNextId("POST vietnamese", "vietnamese",
                             vietnamese_sessions, vietnamese_sessions')
       /\ CreateIssuedNextId("POST python", "python",
                             python_sessions, python_sessions')
       /\ CreateIssuedNextId("POST freelance", "freelance",
                             freelance_projects, freelance_projects')
       /\ CreateIssuedNextId("POST milestones", "milestones",
                             milestones, milestones')
       /\ CreateIssuedNextId("POST notes", "notes", notes, notes')
       /\ request'.op \in {"PUT milestones", "PUT notes"} =>
              /\ IdSeq(milestones') = IdSeq(milestones)
              /\ IdSeq(notes') = IdSeq(notes)]_vars

\* a milestone was created after the milestone issued last had been
\* deleted, and got the next id, not the id of the deleted one
C21_Witness ==
    /\ request.op = "POST milestones"
    /\ response.id = SeedCounters.milestones
    /\ Ids(milestones) = {1, 2, 3, SeedCounters.milestones}

\* list without its i-th record
WithoutIndex(list, i) ==
    SubSeq(list, 1, i - 1) \o SubSeq(list, i + 1, Len(list))

\* new is old without its one record of the given id
RemovedExactly(old, new, id) ==
    \E i \in 1..Len(old) :
        /\ old[i].id = id
        /\ new = WithoutIndex(old, i)

\* a delete of collection op on the list old, which is new afterwards
DeleteRemovesOneOrNone(op, old, new) ==
    request'.op = op =>
        /\ response' = [op |-> op, success |-> TRUE]
        /\ IF request'.id \in Ids(old)
           THEN RemovedExactly(old, new, request'.id)
           ELSE new = old

\* an update of collection op on the list old
UpdateOfUnknownIdIsNoOp(op, old, new) ==
    request'.op = op =>
        /\ response' = [op |-> op, success |-> TRUE]
        /\ request'.id \notin Ids(old) => new = old

\* the collections that the request did not address, the counters and the
\* settings are as before
OnlyAddressedChanges ==
    LET on(c) == request'.op \in {"POST " \o c, "PUT " \o c, "DELETE " \o c}
        posted == request'.op \in {"POST vietnamese", "POST python",
                                   "POST freelance", "POST milestones",
                                   "POST notes"}
    IN /\ ~on("vietnamese") => vietnamese_sessions' = vietnamese_sessions
       /\ ~on("python") => python_sessions' = python_sessions
       /\ ~on("freelance") => freelance_projects' = freelance_projects
       /\ ~on("milestones") => milestones' = milestones
       /\ ~on("notes") => notes' = notes
       /\ ~posted => COUNTERS' = COUNTERS
       /\ settings' = settings
       /\ learning_path' = learning_path

\* C22: a delete or an update addressed to an id that no record of the
\* collection has reports success and leaves every collection, the
\* counters and the settings as they were; a delete of an id that a record
\* has removes that one record and leaves the other records of the
\* collection, in their order, and all other collections as they were.
C22_UnknownIdNoOpAndNoCascade ==
    [][/\ DeleteRemovesOneOrNone("DELETE vietnamese", vietnamese_sessions,
                                 vietnamese_sessions')
       /\ DeleteRemovesOneOrNone("DELETE python", python_sessions,
                                 python_sessions')
       /\ DeleteRemovesOneOrNone("DELETE freelance", freelance_projects,
                                 freelance_projects')
       /\ DeleteRemovesOneOrNone("DELETE milestones", milestones,
                                 milestones')
       /\ DeleteRemovesOneOrNone("DELETE notes", notes, notes')
       /\ UpdateOfUnknownIdIsNoOp("PUT milestones", milestones, milestones')
       /\ UpdateOfUnknownIdIsNoOp("PUT notes", notes, notes')
       /\ OnlyAddressedChanges]_vars

\* the first seeded milestone was deleted and the three others are left,
\* with every other collection as seeded
C22_Witness ==
    /\ request = [op |-> "DELETE milestones", id |-> 1]
    /\ milestones = Tail(SeedMilestones)
    /\ notes = SeedNotes(FirstDay)
    /\ vietnamese_sessions = SeedVietnameseSessions(FirstDay)
    /\ COUNTERS = SeedCounters

----------------------------------------------------------------------------
(* Properties of the learning path, checked under LearningSpec *)

\* the fields of a skill that are fixed at seed time
FixedFields(skill) ==
    [skill_id |-> skill.skill_id, skill_name |-> skill.skill_name,
     phase |-> skill.phase]

\* C23: after any sequence of learning-path updates, updates that name an
\* unknown skill_id included, the skills are the seeded ones, in the seeded
\* number and order, and skill_id, skill_name and phase of each have their
\* seeded values; each skill has the five seeded fields and no other.
C23_SkillsAsSeeded ==
    /\ Len(learning_path) = Len(SeedLearningPath)
    /\ \A i \in 1..Len(learning_path) :
           /\ FixedFields(learning_path[i]) = FixedFields(SeedLearningPath[i])
           /\ DOMAIN learning_path[i] = DOMAIN SeedLearningPath[i]

\* an update that names no skill of the path has been served after one
\* that changed both mutable fields of a skill
C23_Witness ==
    /\ request.op = "PUT learning_path"
    /\ request.data.skill_id = "no_such_skill"
    /\ \E i \in 1..Len(learning_path) :
           /\ learning_path[i].completed # SeedLearningPath[i].completed
           /\ learning_path[i].project_url # Null

\* C30: an update of an existing skill whose body has 'project_url' and no
\* 'completed' sets project_url and leaves the skill's completed flag as it
\* was; one whose body has 'completed' and no 'project_url' leaves
\* project_url as it was; in both cases every other skill is unchanged.
C30_PartialMergeOfSkill ==
    [][request'.op = "PUT learning_path" =>
          LET data == request'.data
          IN \A i \in 1..Len(learning_path) :
                 IF learning_path[i].skill_id = data.skill_id
                 THEN /\ (DOMAIN data = {"skill_id", "project_url"} =>
                            /\ learning_path'[i].project_url
                                   = data.project_url
                            /\ learning_path'[i].completed
                                   = learning_path[i].completed)
                      /\ (DOMAIN data = {"skill_id", "completed"} =>
                            /\ learning_path'[i].completed = data.completed
                            /\ learning_path'[i].project_url
                                   = learning_path[i].project_url)
                 ELSE learning_path'[i] = learning_path[i]]_vars

----------------------------------------------------------------------------
(* The values embedded in the reason, checked under FocusSpec *)

\* the value formatted into the reason at position i (the pieces at odd
\* positions are the literal text of the f-string)
EmbedsAt(reason, i, value) == Len(reason) >= i /\ reason[i] = value

Rule4Holds ==
    /\ request.py_percent >= 70
    /\ request.vn_percent >= 70
    /\ request.income_percent < 50

Rule5Holds == request.py_percent >= 80 /\ request.vn_percent >= 80

\* C26: in every branch of determine_daily_focus the reason embeds the
\* value(s) that selected the branch exactly as passed in: the streak length
\* in rule 1, vn_percent and py_percent in rules 2 and 3, income_percent in
\* rule 4, the learning percents in rule 5, and the lower track's percent in
\* the default rule.
C26_ReasonEmbedsValues ==
    FocusReturned =>
        LET reason == response.ret.reason
            py == request.py_percent
            vn == request.vn_percent
        IN  IF StreakAtRisk
            THEN EmbedsAt(reason, 2, request.streak_info.streak)
            ELSE IF VnBehind
            THEN EmbedsAt(reason, 2, vn) /\ EmbedsAt(reason, 4, py)
            ELSE IF PyBehind
            THEN EmbedsAt(reason, 2, py) /\ EmbedsAt(reason, 4, vn)
            ELSE IF Rule4Holds
            THEN EmbedsAt(reason, 2, request.income_percent)
            ELSE IF Rule5Holds
            THEN \E i, j \in 1..Len(reason) :
                    /\ i # j /\ i % 2 = 0 /\ j % 2 = 0
                    /\ reason[i] = py /\ reason[j] = vn
            ELSE EmbedsAt(reason, 2, IF py <= vn THEN py ELSE vn)

----------------------------------------------------------------------------
(* Derived results and the stored data, checked under DashSpec *)

DerivedOps == {"get_stats", "get_today", "get_recommendations", "today_page"}

\* the results that involve no random choice
DeterministicOps == {"get_stats", "get_today"}

\* C24: computing a derived result (the stats, today or recommendations
\* snapshot, or the today page with get_upcoming_milestones) leaves every
\* stored collection, every stored record's fields and values, the id
\* counters and the settings unchanged, so two consecutive computations of
\* the same result return the same values.
C24_DerivedResultsReadOnly ==
    [][ request'.op \in DerivedOps =>
            /\ UNCHANGED <<vietnamese_sessions, python_sessions,
                           freelance_projects, milestones, notes,
                           learning_path, COUNTERS, settings>>
            /\ ( /\ request.op = request'.op
                 /\ request'.op \in DeterministicOps )
                    => response' = response ]_vars

----------------------------------------------------------------------------
(* The percents handed to determine_daily_focus, checked under DashSpec *)

\* floor(100 * actual / target) capped at 100, and 100 for a target of 0
FloorPercent(actual, den, target) ==
    IF target > 0 THEN Min(100, (100 * actual) \div den) ELSE 100

\* C25: python_percent, vietnamese_percent and income_percent passed to the
\* recommendation engine are integers in 0..100: each is
\* floor(100 * actual / target) capped at 100 when target > 0, and 100 when
\* the target is 0; no value above 100 is produced.
C25_PercentsAreCappedFloors ==
    Returned("get_recommendations") =>
        LET summary == response.ret.weekly_summary
            week == get_week_dates(today)
            py_week == SumWeekHours(python_sessions, week)
            vn_week_mins == SumWeekMinutes(vietnamese_sessions, week)
            income_month ==
                SumAmountSince(freelance_projects, get_month_start(today))
        IN  /\ summary.python_percent \in 0..100
            /\ summary.vietnamese_percent \in 0..100
            /\ summary.income_percent \in 0..100
            /\ summary.python_percent =
                   FloorPercent(py_week, 10 * settings.python_weekly_target,
                                settings.python_weekly_target)
            /\ summary.vietnamese_percent =
                   FloorPercent(vn_week_mins,
                                60 * settings.vietnamese_weekly_target,
                                settings.vietnamese_weekly_target)
            /\ summary.income_percent =
                   FloorPercent(income_month, settings.income_target,
                                settings.income_target)

----------------------------------------------------------------------------
(* The fields of the grace result, checked under Spec *)

\* C27: every result of calculate_streak_with_grace() satisfies: streak >= 0;
\* at_risk = grace_active; at_risk implies not practiced_today;
\* practiced_today implies streak >= 1; streak >= 1 implies practiced_today
\* or at_risk; streak is at most the number of distinct session dates; and
\* calculate_streak() returns the same number as the streak field.
C27_GraceResultInvariants ==
    GraceReturned =>
        LET r == response.ret
        IN  /\ r.streak >= 0
            /\ r.at_risk = r.grace_active
            /\ r.at_risk => ~r.practiced_today
            /\ r.practiced_today => r.streak >= 1
            /\ r.streak >= 1 => (r.practiced_today \/ r.at_risk)
            /\ r.streak <= Cardinality(Dates)
            /\ calculate_streak(vietnamese_sessions, today) = r.streak

\* a streak at risk that is shorter than the number of session dates
C27_Witness ==
    /\ GraceReturned
    /\ response.ret.at_risk
    /\ response.ret.streak >= 2
    /\ response.ret.streak < Cardinality(Dates)

----------------------------------------------------------------------------
(* A session created on a day at risk, checked under Spec *)

\* the language sessions of the store that are dated d
StoredOn(d) ==
    { i \in 1..Len(vietnamese_sessions) :
          vietnamese_sessions[i].session_date = d }

\* no recommendation computed from streak_info is the 'urgent' one
NeverUrgent(streak_info, sessions) ==
    \A py \in {0, 100}, vn \in {0, 100}, inc \in {0, 100} :
        determine_daily_focus(py, vn, inc, streak_info, 1, sessions,
                              today).priority # "urgent"

\* C28: when the grace result is at_risk with streak n on day d and a
\* language session dated d is created, the next grace result on day d has
\* streak n + 1, at_risk false, grace_active false and practiced_today true,
\* and the recommendation is no longer the 'urgent' one; a further session
\* dated d does not change the grace result.
C28_SessionTodayRescuesStreak ==
    [][ (request'.op = "POST vietnamese" /\ request'.session_date = today) =>
            LET before ==
                    calculate_streak_with_grace(vietnamese_sessions, today)
                after ==
                    calculate_streak_with_grace(vietnamese_sessions', today)
            IN  /\ before.at_risk =>
                      /\ after = StreakInfo(before.streak + 1,
                                            FALSE, FALSE, TRUE)
                      /\ NeverUrgent(after, vietnamese_sessions')
                /\ before.practiced_today => after = before ]_vars

\* two sessions dated today were created on a day that began at risk
C28_Witness ==
    /\ response.op = "POST vietnamese"
    /\ request.session_date = today
    /\ Cardinality(StoredOn(today)) >= 2
    /\ calculate_streak_with_grace(vietnamese_sessions, today)
           = StreakInfo(4, FALSE, FALSE, TRUE)

----------------------------------------------------------------------------
(* Rule 1 with the streak_info of the same store, checked under DashSpec *)

FocusComputed ==
    Returned("get_recommendations") \/ Returned("today_page")

\* the focus that get_recommendations or get_smart_focus has computed
ComputedFocus ==
    IF Returned("get_recommendations")
    THEN response.ret.daily_focus
    ELSE response.ret.focus

\* C29: when determine_daily_focus is called with the streak_info that
\* calculate_streak_with_grace() computes from the same store (as
\* get_recommendations and get_smart_focus do), at_risk implies that no
\* session is dated today and that practiced_today is false, and the
\* streak-protection branch computes minutes_today = 0 and names exactly 60
\* minutes.
C29_UrgentAlwaysNamesSixty ==
    FocusComputed =>
        LET streak_info ==
                calculate_streak_with_grace(vietnamese_sessions, today)
        IN  /\ streak_info.at_risk =>
                  /\ today \notin Dates
                  /\ MinutesOn(vietnamese_sessions, today) = 0
                  /\ ~streak_info.practiced_today
                  /\ ComputedFocus.priority = "urgent"
            /\ ComputedFocus.priority = "urgent" =>
                  /\ streak_info.at_risk
                  /\ ComputedFocus.suggestion =
                         <<"Just ", 60, " more minutes to keep it alive">>

\* the today page protects a streak in a store that holds a fourth session
C29_Witness ==
    /\ Returned("today_page")
    /\ ComputedFocus.priority = "urgent"
    /\ ComputedFocus.suggestion[2] = 60
    /\ Len(vietnamese_sessions) = 4

====
